---- MODULE Spec2Model ----
(***************************************************************************)
(* Request lifecycle of the image converter backend: the convert, resize   *)
(* and compress controllers (single-item and multi-item pipelines), the    *)
(* bulk convert controller, their validation layer, staged-file cleanup    *)
(* and response-state handling.                                            *)
(*                                                                         *)
(* Collaborators outside the repository are modelled at their boundary:    *)
(*  - fs.unlink removes the path when it is issued; its promise resolves   *)
(*    in a later step (the await), so other handlers interleave.           *)
(*  - a Node stream event reaches only the listeners registered when it    *)
(*    is emitted; readable.pipe() forwards neither an error nor an end     *)
(*    to its destination when the source fails.                            *)
(*  - the codec (sharp) may or may not end its output after 'error'.       *)
(*  - the archiver consumes appended entries one at a time, in order, and  *)
(*    only while its output drains into an open response.                  *)
(***************************************************************************)
EXTENDS Integers, Sequences, FiniteSets, TLC

----------------------------------------------------------------------------
(* Bounds of the model *)

\* largest number of uploaded files in one request
MaxFiles == 3

----------------------------------------------------------------------------
(* JavaScript values *)

Undef == [t |-> "undefined"]
Null == [t |-> "null"]
NaN == [t |-> "nan"]
\* a finite number, kept in tenths so that one fractional digit is exact
Num(tenths) == [t |-> "number", tenths |-> tenths]
JsInt(n) == Num(10 * n)
\* a string is a sequence of one-character strings
Str(s) == [t |-> "string", s |-> s]
Arr(a) == [t |-> "array", a |-> a]
\* a string constant of the program whose characters are never inspected
Lit(x) == [t |-> "literal", s |-> x]
Bool(b) == [t |-> "boolean", b |-> b]

IsNumber(v) == v.t = "number"
IsInteger(v) == v.t = "number" /\ v.tenths % 10 = 0

\* JavaScript truthiness
Truthy(v) ==
  CASE v.t = "number" -> v.tenths # 0
    [] v.t = "string" -> v.s # <<>>
    [] v.t = "array" -> TRUE
    [] v.t = "literal" -> TRUE
    [] v.t = "boolean" -> v.b
    [] OTHER -> FALSE

\* a || b
OrElse(a, b) == IF Truthy(a) THEN a ELSE b

DigitChars == {"0", "1", "2", "3", "4", "5", "6", "7", "8", "9"}

DigitVal(c) ==
  CASE c = "0" -> 0 [] c = "1" -> 1 [] c = "2" -> 2 [] c = "3" -> 3
    [] c = "4" -> 4 [] c = "5" -> 5 [] c = "6" -> 6 [] c = "7" -> 7
    [] c = "8" -> 8 [] c = "9" -> 9

RECURSIVE DigitsValue(_)
DigitsValue(s) ==
  IF s = <<>> THEN 0
  ELSE 10 * DigitsValue(SubSeq(s, 1, Len(s) - 1)) + DigitVal(s[Len(s)])

AllDigits(s) == \A k \in 1..Len(s) : s[k] \in DigitChars

\* Number(x) for the strings a form field carries: "" is 0, an optional
\* sign, digits and at most one fractional digit are a number, the rest NaN
ToNumber(v) ==
  IF v.t = "number" \/ v.t = "nan" THEN v
  ELSE IF v.t = "null" THEN Num(0)
  ELSE IF v.t # "string" THEN NaN
  ELSE LET neg == v.s # <<>> /\ v.s[1] = "-"
           body == IF neg THEN Tail(v.s) ELSE v.s
           sign == IF neg THEN -1 ELSE 1
           dot == {k \in 1..Len(body) : body[k] = "."}
       IN IF v.s = <<>> THEN Num(0)
          ELSE IF body = <<>> THEN NaN
          ELSE IF dot = {} THEN
            IF AllDigits(body) THEN Num(sign * 10 * DigitsValue(body)) ELSE NaN
          ELSE LET d == CHOOSE k \in dot : TRUE
                   ip == SubSeq(body, 1, d - 1)
                   fp == SubSeq(body, d + 1, Len(body))
               IN IF Cardinality(dot) = 1 /\ Len(fp) = 1 /\ ip # <<>>
                     /\ AllDigits(ip) /\ AllDigits(fp)
                  THEN Num(sign * (10 * DigitsValue(ip) + DigitVal(fp[1])))
                  ELSE NaN

\* Math.round: the nearest integer, halves towards +infinity
MathRound(v) == JsInt((v.tenths + 5) \div 10)

LowerChar(c) ==
  CASE c = "A" -> "a" [] c = "B" -> "b" [] c = "E" -> "e" [] c = "F" -> "f"
    [] c = "G" -> "g" [] c = "I" -> "i" [] c = "J" -> "j" [] c = "M" -> "m"
    [] c = "N" -> "n" [] c = "P" -> "p" [] c = "T" -> "t" [] c = "V" -> "v"
    [] c = "W" -> "w" [] OTHER -> c

\* String.prototype.toLowerCase
ToLowerCase(s) == [k \in 1..Len(s) |-> LowerChar(s[k])]

RECURSIVE TrimStart(_)
TrimStart(s) ==
  IF s # <<>> /\ s[1] = " " THEN TrimStart(Tail(s)) ELSE s

RECURSIVE TrimEnd(_)
TrimEnd(s) ==
  IF s # <<>> /\ s[Len(s)] = " " THEN TrimEnd(SubSeq(s, 1, Len(s) - 1)) ELSE s

\* String.prototype.trim
Trim(s) == TrimEnd(TrimStart(s))

----------------------------------------------------------------------------
(* Program constants *)

MAX_DIMENSION == 20000
MAX_OUTPUT_DIMENSION == 10000

SUPPORTED_FORMATS ==
  { <<"j","p","g">>, <<"j","p","e","g">>, <<"p","n","g">>,
    <<"w","e","b","p">>, <<"t","i","f","f">>, <<"a","v","i","f">> }

ALLOWED_INPUT_FORMATS ==
  { <<"j","p","e","g">>, <<"j","p","g">>, <<"p","n","g">>,
    <<"w","e","b","p">>, <<"g","i","f">>, <<"t","i","f","f">>,
    <<"a","v","i","f">> }

ALLOWED_MIME_TYPES ==
  { <<"i","m","a","g","e","/","j","p","e","g">>,
    <<"i","m","a","g","e","/","p","n","g">>,
    <<"i","m","a","g","e","/","w","e","b","p">>,
    <<"i","m","a","g","e","/","g","i","f">>,
    <<"i","m","a","g","e","/","t","i","f","f">>,
    <<"i","m","a","g","e","/","a","v","i","f">> }

----------------------------------------------------------------------------
(* Errors and results *)

\* utils/AppError.js: the third constructor argument is stored as `type`;
\* the object has no `code` and no `details` property
AppError(message, statusCode, type) ==
  [ isAppError |-> TRUE, message |-> message, statusCode |-> statusCode,
    status |-> IF statusCode \div 100 = 4 THEN "fail" ELSE "error",
    type |-> type, isOperational |-> TRUE ]

\* an exception that is not an AppError (TypeError, archiver or codec error)
PlainError(message) == [ isAppError |-> FALSE, message |-> message ]

NoError == [ isAppError |-> FALSE, message |-> "" ]

\* err.code / err.details as the controllers read them
ErrCode(err) == IF "code" \in DOMAIN err THEN err.code ELSE Undef
ErrDetails(err) == IF "details" \in DOMAIN err THEN err.details ELSE Undef

Ok(v) == [ok |-> TRUE, val |-> v]
Throw(e) == [ok |-> FALSE, err |-> e]

----------------------------------------------------------------------------
(* Validation layer *)

\* path.extname(file.originalname).toLowerCase().slice(1)
FileExt(file) == ToLowerCase(file.ext)

\* file.mimetype?.toLowerCase()
FileMime(file) == ToLowerCase(file.mimetype)

\* a check that wants the extension and the MIME type both allowed
validateFileType_Both(file) ==
  IF FileExt(file) \notin ALLOWED_INPUT_FORMATS
     \/ FileMime(file) \notin ALLOWED_MIME_TYPES
  THEN Throw(AppError("Invalid file type. Allowed formats: "
                        \o "jpeg, jpg, png, webp, gif, tiff, avif", 400,
                      "INVALID_FILE_TYPE"))
  ELSE Ok(Undef)

validateFileType(file) ==
  IF FileExt(file) \notin ALLOWED_INPUT_FORMATS
     /\ FileMime(file) \notin ALLOWED_MIME_TYPES
  THEN Throw(AppError("Invalid file type. Allowed formats: "
                        \o "jpeg, jpg, png, webp, gif, tiff, avif", 400,
                      "INVALID_FILE_TYPE"))
  ELSE Ok(Undef)

\* validateInputFile of the bulk convert controller
validateInputFile(file) ==
  IF FileExt(file) \notin (SUPPORTED_FORMATS \cup { <<"g","i","f">> })
     /\ FileMime(file) \notin ALLOWED_MIME_TYPES
  THEN Throw(AppError("Invalid file type. Supported: "
                        \o "jpg, jpeg, png, webp, tiff, avif, gif", 400,
                      "INVALID_FILE_TYPE"))
  ELSE Ok(Undef)

\* `Invalid format. Supported: ${SUPPORTED_FORMATS.join(", ")}`
InvalidFormatText ==
  "Invalid format. Supported: jpg, jpeg, png, webp, tiff, avif"

\* a check that lower-cases the format but leaves its blanks
validateFormat_NoTrim(format) ==
  IF ~Truthy(format) \/ format.t # "string"
  THEN Throw(AppError("Format is required", 400, "FORMAT_REQUIRED"))
  ELSE LET normalizedFormat == ToLowerCase(format.s)
       IN IF normalizedFormat \notin SUPPORTED_FORMATS
          THEN Throw(AppError(InvalidFormatText, 400, "INVALID_FORMAT"))
          ELSE Ok(Str(normalizedFormat))

validateFormat(format) ==
  IF ~Truthy(format) \/ format.t # "string"
  THEN Throw(AppError("Format is required", 400, "FORMAT_REQUIRED"))
  ELSE LET normalizedFormat == Trim(ToLowerCase(format.s))
       IN IF normalizedFormat \notin SUPPORTED_FORMATS
          THEN Throw(AppError(InvalidFormatText, 400, "INVALID_FORMAT"))
          ELSE Ok(Str(normalizedFormat))

\* a check of the target dimensions that knows no ceiling
validateDimensions_NoCeiling(width, height) ==
  IF ~Truthy(width) /\ ~Truthy(height)
  THEN Throw(AppError("Width or height must be provided", 400,
                      "DIMENSION_REQUIRED"))
  ELSE IF Truthy(width) /\ (~IsInteger(width) \/ width.tenths <= 0)
  THEN Throw(AppError("Invalid width value", 400, "INVALID_WIDTH"))
  ELSE IF Truthy(height) /\ (~IsInteger(height) \/ height.tenths <= 0)
  THEN Throw(AppError("Invalid height value", 400, "INVALID_HEIGHT"))
  ELSE Ok(Undef)

validateDimensions(width, height) ==
  IF ~Truthy(width) /\ ~Truthy(height)
  THEN Throw(AppError("Width or height must be provided", 400,
                      "DIMENSION_REQUIRED"))
  ELSE IF Truthy(width) /\ (~IsInteger(width) \/ width.tenths <= 0)
  THEN Throw(AppError("Invalid width value", 400, "INVALID_WIDTH"))
  ELSE IF Truthy(height) /\ (~IsInteger(height) \/ height.tenths <= 0)
  THEN Throw(AppError("Invalid height value", 400, "INVALID_HEIGHT"))
  ELSE IF (Truthy(width) /\ width.tenths > 10 * MAX_OUTPUT_DIMENSION)
          \/ (Truthy(height) /\ height.tenths > 10 * MAX_OUTPUT_DIMENSION)
  THEN Throw(AppError("Maximum allowed dimension is 10000px", 400,
                      "DIMENSION_TOO_LARGE"))
  ELSE Ok(Undef)

\* a check that returns the number as it was given
validateCompressionPercent_Unrounded(percent) ==
  IF percent.t = "undefined" \/ percent.t = "null"
  THEN Throw(AppError("Compression percent is required", 400,
                      "PERCENT_REQUIRED"))
  ELSE LET num == ToNumber(percent)
       IN IF ~IsNumber(num)
          THEN Throw(AppError("Compression percent must be a valid number",
                              400, "INVALID_PERCENT"))
          ELSE IF num.tenths < 10 \/ num.tenths > 1000
          THEN Throw(AppError("Compression percent must be between 1 and 100",
                              400, "PERCENT_OUT_OF_RANGE"))
          ELSE Ok(num)

validateCompressionPercent(percent) ==
  IF percent.t = "undefined" \/ percent.t = "null"
  THEN Throw(AppError("Compression percent is required", 400,
                      "PERCENT_REQUIRED"))
  ELSE LET num == ToNumber(percent)
       IN IF ~IsNumber(num)
          THEN Throw(AppError("Compression percent must be a valid number",
                              400, "INVALID_PERCENT"))
          ELSE IF num.tenths < 10 \/ num.tenths > 1000
          THEN Throw(AppError("Compression percent must be between 1 and 100",
                              400, "PERCENT_OUT_OF_RANGE"))
          ELSE Ok(MathRound(num))

\* a probe whose ceiling refuses a dimension of MAX_DIMENSION itself
validateImageMetadata_Inclusive(file) ==
  IF ~file.image.readable
  THEN Throw(AppError("Failed to read image metadata", 400, "INVALID_IMAGE"))
  ELSE IF file.image.width = 0 \/ file.image.height = 0
  THEN Throw(AppError("Invalid image file", 400, "INVALID_IMAGE"))
  ELSE IF file.image.width >= MAX_DIMENSION
          \/ file.image.height >= MAX_DIMENSION
  THEN Throw(AppError("Input image dimensions exceed maximum (20000px)", 400,
                      "INPUT_DIMENSION_TOO_LARGE"))
  ELSE Ok(file.image)

\* validateImageMetadata: file.image is what the codec's metadata probe
\* finds in the staged file (readable or not, width, height)
validateImageMetadata(file) ==
  IF ~file.image.readable
  THEN Throw(AppError("Failed to read image metadata", 400, "INVALID_IMAGE"))
  ELSE IF file.image.width = 0 \/ file.image.height = 0
  THEN Throw(AppError("Invalid image file", 400, "INVALID_IMAGE"))
  ELSE IF file.image.width > MAX_DIMENSION \/ file.image.height > MAX_DIMENSION
  THEN Throw(AppError("Input image dimensions exceed maximum (20000px)", 400,
                      "INPUT_DIMENSION_TOO_LARGE"))
  ELSE Ok(file.image)

\* validateImageMetadata of the bulk convert controller (another error type)
validateImageMetadataBulk(file) ==
  IF ~file.image.readable
  THEN Throw(AppError("Failed to read image metadata: " \o file.name, 400,
                      "INVALID_IMAGE"))
  ELSE IF file.image.width = 0 \/ file.image.height = 0
  THEN Throw(AppError("Invalid or corrupted image: " \o file.name, 400,
                      "INVALID_IMAGE"))
  ELSE IF file.image.width > MAX_DIMENSION \/ file.image.height > MAX_DIMENSION
  THEN Throw(AppError("Image dimensions exceed maximum (20000px): "
                        \o file.name, 400, "IMAGE_TOO_LARGE"))
  ELSE Ok(file.image)

----------------------------------------------------------------------------
(* Requests *)

PngExt == <<"p","n","g">>
PngMime == <<"i","m","a","g","e","/","p","n","g">>
BmpMime == <<"i","m","a","g","e","/","b","m","p">>

\* a readable PNG of acceptable size
GoodPng ==
  [ name |-> "photo", ext |-> PngExt, mimetype |-> PngMime,
    image |-> [readable |-> TRUE, width |-> 800, height |-> 600,
               format |-> PngExt] ]

\* a BMP upload: the upload filter lets image/bmp through, no controller
\* allows it
BadType ==
  [ name |-> "scan", ext |-> <<"b","m","p">>, mimetype |-> BmpMime,
    image |-> [readable |-> FALSE, width |-> 0, height |-> 0,
               format |-> <<>>] ]

\* a file named .PNG whose content the codec cannot read
Corrupt ==
  [ name |-> "broken", ext |-> <<"P","N","G">>, mimetype |-> PngMime,
    image |-> [readable |-> FALSE, width |-> 0, height |-> 0,
               format |-> <<>>] ]

\* an SVG document uploaded under a .png name
SvgAsPng ==
  [ name |-> "logo", ext |-> PngExt, mimetype |-> PngMime,
    image |-> [readable |-> TRUE, width |-> 300, height |-> 300,
               format |-> <<"s","v","g">>] ]

\* a readable PNG wider than MAX_DIMENSION
HugePng ==
  [ name |-> "poster", ext |-> PngExt, mimetype |-> PngMime,
    image |-> [readable |-> TRUE, width |-> MAX_DIMENSION + 1, height |-> 600,
               format |-> PngExt] ]

FileProfiles == {GoodPng, BadType, Corrupt}

Ops == {"convert", "resize", "compress", "bulk", "single"}

\* the validators, when one is called outside of a request
ValidatorNames ==
  {"validateFormat", "validateDimensions", "validateCompressionPercent",
   "validateFileType", "validateImageMetadata"}

\* form field `format` of convert and bulk
FormatInputs == { Str(<<" ","P","N","G">>), Undef, Str(<<"b","m","p">>) }

\* the target formats tried on the routes that convert one file: each
\* supported format, one in capitals with spaces, an unsupported one, none
AllFormatInputs ==
  {Str(f) : f \in SUPPORTED_FORMATS}
    \cup {Str(<<" ","W","e","b","P"," ">>), Str(<<"b","m","p">>), Undef}

\* form field `quality` of compress
QualityInputs == { Str(<<"8","0">>), Undef, Str(<<"0">>) }

FileSeqs == UNION { [1..n -> FileProfiles] : n \in 0..MaxFiles }

\* the `widths` arrays tried for n files: a width for every file, no width
\* for the first file, and one width whatever the number of files
WidthArrays(n) ==
  { [k \in 1..n |-> Str(<<"1","0","0">>)],
    [k \in 1..n |-> IF k = 1 THEN Str(<<>>) ELSE Str(<<"1","0","0">>)],
    <<Str(<<"1","0","0">>)>> }

\* entries of the form fields `widths` and `heights`
W100 == Str(<<"1","0","0">>)
W200 == Str(<<"2","0","0">>)
W300 == Str(<<"3","0","0">>)
H50 == Str(<<"5","0">>)
Empty == Str(<<>>)
\* one more than MAX_OUTPUT_DIMENSION
W10001 == Str(<<"1","0","0","0","1">>)

\* resize requests with per-file dimensions: a batch with an entry left
\* empty, with and without a height for that file; a batch whose first file
\* is skipped; arrays longer or shorter than the file list; a target above
\* MAX_OUTPUT_DIMENSION; an input above MAX_DIMENSION
DimensionCases ==
  { [files |-> <<GoodPng, GoodPng, GoodPng>>,
     widths |-> Arr(<<W100, Empty, W300>>),
     heights |-> Arr(<<Empty, H50, Empty>>)],
    [files |-> <<GoodPng, GoodPng, GoodPng>>,
     widths |-> Arr(<<W100, Empty, W300>>), heights |-> Undef],
    [files |-> <<BadType, GoodPng, GoodPng>>,
     widths |-> Arr(<<W100, W200, W300>>), heights |-> Undef],
    [files |-> <<GoodPng>>,
     widths |-> Arr(<<W100, W200>>), heights |-> Undef],
    [files |-> <<GoodPng>>,
     widths |-> Arr(<<W100>>), heights |-> Arr(<<H50, H50>>)],
    [files |-> <<GoodPng, GoodPng>>,
     widths |-> Arr(<<W100, W200>>), heights |-> Arr(<<H50>>)],
    [files |-> <<GoodPng, HugePng, GoodPng>>,
     widths |-> Arr(<<W10001, W100, W200>>), heights |-> Undef],
    [files |-> <<GoodPng>>,
     widths |-> Arr(<<W10001>>), heights |-> Undef],
    [files |-> <<HugePng>>,
     widths |-> Arr(<<W100>>), heights |-> Undef] }

NoBody == [format |-> Undef, quality |-> Undef, widths |-> Undef,
           heights |-> Undef]

\* the requests the model is explored for
Requests ==
  { [op |-> "convert", files |-> f, body |-> [NoBody EXCEPT !.format = x]] :
      f \in FileSeqs, x \in FormatInputs }
  \cup
  { [op |-> "bulk", files |-> f, body |-> [NoBody EXCEPT !.format = x]] :
      f \in FileSeqs, x \in FormatInputs }
  \cup
  { [op |-> "single", files |-> f, body |-> [NoBody EXCEPT !.format = x]] :
      f \in {<<>>} \cup {<<p>> : p \in FileProfiles}, x \in FormatInputs }
  \cup
  { [op |-> o, files |-> <<GoodPng>>, body |-> [NoBody EXCEPT !.format = x]] :
      o \in {"convert", "single"}, x \in AllFormatInputs }
  \cup
  { [op |-> "compress", files |-> f, body |-> [NoBody EXCEPT !.quality = x]] :
      f \in FileSeqs \cup {<<SvgAsPng>>, <<SvgAsPng, GoodPng>>},
      x \in QualityInputs }
  \cup
  UNION { { [op |-> "resize", files |-> f,
             body |-> [NoBody EXCEPT !.widths = Arr(w)]] :
             w \in WidthArrays(Len(f)) } : f \in FileSeqs }
  \cup
  { [op |-> "resize", files |-> f,
     body |-> [NoBody EXCEPT !.widths = Str(<<"1","0","0">>)]] :
      f \in {<<GoodPng>>, <<GoodPng, GoodPng>>} }
  \cup
  { [op |-> "resize", files |-> c.files,
     body |-> [NoBody EXCEPT !.widths = c.widths, !.heights = c.heights]] :
      c \in DimensionCases }

----------------------------------------------------------------------------
(* State *)

VARIABLES
  op,              \* which controller serves the request
  files,           \* req.files
  body,            \* req.body
  staged,          \* indexes of the files whose staged path still exists
  faults,          \* unlink calls the file system may still refuse (EPERM)
  res,             \* the response
  pc,              \* where the controller's async function is suspended
  idx,             \* index of the file the dispatch loop is at
  err,             \* the exception being propagated
  param,           \* the validated operation parameter (format, percent)
  listeners,       \* single pipeline: the response and codec listeners are on
  cleanupDone,     \* single pipeline: the cleanup guard
  cleanupCalls,    \* single pipeline: deletions issued by the cleanup routine
  hpc,             \* event handlers: idle, await (suspended at an await), done
  hok,             \* the result of the safeDelete a handler or main awaits
  stream,          \* per file: state of its transform stream
  filesToCleanup,  \* multi pipeline: the pending-cleanup set
  archive,         \* multi pipeline: state of the archive writer
  archiveFinalized,\* multi pipeline: the flag set right before finalize()
  finalizeCalls,   \* number of archive.finalize() calls
  entries,         \* file indexes appended to the archive, in order
  resizeArgs,      \* the arguments sharp().resize() was called with, per file
  consumed,        \* number of entries the archive has fully consumed
  stalled,         \* the archive output no longer drains (response gone)
  processedCount,
  errors,          \* the per-file skip records
  unhandled,       \* an exception was thrown where nothing catches it
  locked,          \* indexes of the files whose path unlink refuses (EPERM)
  call             \* the last direct call of safeDelete: argument, outcome

\* what no step of a request changes: the request, and the variables of the
\* specification that calls safeDelete directly
reqVars == <<op, files, body, locked, call>>
fsVars == <<staged, faults>>
mainVars == <<pc, idx, err, param>>
singleVars == <<listeners, cleanupDone, cleanupCalls>>
handlerVars == <<hpc, hok>>
multiVars == <<filesToCleanup, archive, archiveFinalized, finalizeCalls,
               entries, resizeArgs, consumed, stalled, processedCount,
               errors>>

vars == <<op, files, body, staged, faults, res, pc, idx, err, param,
          listeners, cleanupDone, cleanupCalls, hpc, hok, stream,
          filesToCleanup, archive, archiveFinalized, finalizeCalls, entries,
          resizeArgs, consumed, stalled, processedCount, errors, unhandled, locked,
          call>>

Handlers == {"main", "finish", "close", "resError", "codecError",
             "archiveError", "archiveEnd"}

N == Len(files)
All == 1..N

\* header values: a media type, a content disposition
Mime(type, subtype) == [type |-> type, subtype |-> subtype]
NoMime == Mime("", <<>>)
NoDisposition == [kind |-> "none", base |-> "", suffix |-> "", ext |-> <<>>]
Attachment(base, suffix, ext) ==
  [kind |-> "attachment", base |-> base, suffix |-> suffix, ext |-> ext]

NoHeaders == [ContentType |-> NoMime, ContentDisposition |-> NoDisposition,
              CacheControl |-> ""]

\* a fresh Express response
NewResponse ==
  [ headers |-> NoHeaders, headersSent |-> FALSE, status |-> 200,
    body |-> "none", json |-> Undef, ended |-> FALSE, finished |-> FALSE,
    closed |-> FALSE ]

\* no safeDelete call made yet
NoCall == [made |-> FALSE, arg |-> Undef, threw |-> FALSE, ret |-> Undef,
           before |-> {}]

\* the locals of a controller invocation, before its first statement
Idle ==
  /\ res = NewResponse
  /\ pc = "start" /\ idx = 0 /\ err = NoError /\ param = Undef
  /\ listeners = FALSE /\ cleanupDone = FALSE /\ cleanupCalls = 0
  /\ hpc = [h \in Handlers |-> "idle"]
  /\ hok = [h \in Handlers |-> TRUE]
  /\ filesToCleanup = {}
  /\ archive = "none" /\ archiveFinalized = FALSE /\ finalizeCalls = 0
  /\ entries = <<>> /\ resizeArgs = {} /\ consumed = 0 /\ stalled = FALSE
  /\ processedCount = 0 /\ errors = <<>>
  /\ unhandled = FALSE

\* the state when the controller is invoked: the upload middleware has staged
\* every file of the request
InitFor(r) ==
  /\ op = r.op /\ files = r.files /\ body = r.body
  /\ staged = 1..Len(r.files)
  /\ faults = 0 /\ locked = {} /\ call = NoCall
  /\ stream = [k \in 1..Len(r.files) |-> "none"]
  /\ Idle

Init == \E r \in Requests : InitFor(r)

----------------------------------------------------------------------------
(* The response *)

NoStore == "no-store, no-cache, must-revalidate"
ZipMime == Mime("application", <<"z","i","p">>)
JsonMime == Mime("application", <<"j","s","o","n">>)

\* res.status(status).json(json)
SendJson(r, status, json) ==
  [r EXCEPT !.status = status, !.json = json, !.body = "json",
            !.headersSent = TRUE, !.ended = TRUE,
            !.headers.ContentType = JsonMime]

\* res.end()
EndStream(r) == [r EXCEPT !.ended = TRUE, !.headersSent = TRUE]

\* the first bytes of the body reach the response through pipe()
WriteBytes(r) == [r EXCEPT !.headersSent = TRUE, !.body = "stream"]

JsonBody(error, code, details) ==
  [error |-> error, code |-> code, details |-> details]

\* a catch block that answers with JSON whatever the state of the headers
ErrorResponse_NoHeaderCheck(r, e) ==
  IF e.isAppError
  THEN SendJson(r, e.statusCode,
                JsonBody(e.message, ErrCode(e), ErrDetails(e)))
  ELSE SendJson(r, 500,
                JsonBody("Internal server error", Lit("INTERNAL_ERROR"),
                         Undef))

\* a catch block that answers every exception with its own message
ErrorResponse_EchoesMessage(r, e) ==
  IF ~r.headersSent
  THEN SendJson(r, IF e.isAppError THEN e.statusCode ELSE 500,
                JsonBody(e.message, ErrCode(e), ErrDetails(e)))
  ELSE EndStream(r)

\* "Handle error response" of the controllers' catch block and of
\* wrapController
ErrorResponse(r, e) ==
  IF ~r.headersSent
  THEN IF e.isAppError
       THEN SendJson(r, e.statusCode,
                     JsonBody(e.message, ErrCode(e), ErrDetails(e)))
       ELSE SendJson(r, 500,
                     JsonBody("Internal server error", Lit("INTERNAL_ERROR"),
                              Undef))
  ELSE EndStream(r)

CodecErrorCode ==
  CASE op = "convert" -> "CONVERSION_ERROR"
    [] op = "resize" -> "PROCESSING_ERROR"
    [] op = "compress" -> "COMPRESSION_ERROR"
    [] OTHER -> "CONVERSION_ERROR"

CodecErrorMessage ==
  CASE op = "convert" -> "Image conversion failed"
    [] op = "resize" -> "Image processing failed"
    [] op = "compress" -> "Image compression failed"
    [] OTHER -> "Image conversion failed"

\* a handler tail that leaves a response whose headers are sent as it is
CodecErrorResponse_LeavesOpen(r) ==
  IF ~r.headersSent
  THEN SendJson(r, 500, JsonBody(CodecErrorMessage, Lit(CodecErrorCode),
                                 Undef))
  ELSE r

\* the tail of the codec 'error' handler of handleSingleFile
CodecErrorResponse(r) ==
  IF ~r.headersSent
  THEN SendJson(r, 500, JsonBody(CodecErrorMessage, Lit(CodecErrorCode),
                                 Undef))
  ELSE EndStream(r)

\* a table that names the type after the extension, jpg included
getMimeType_AfterExtension(format) ==
  IF format \in SUPPORTED_FORMATS THEN Mime("image", format)
  ELSE Mime("application",
            <<"o","c","t","e","t","-","s","t","r","e","a","m">>)

getMimeType(format) ==
  CASE format = <<"j","p","g">> -> Mime("image", <<"j","p","e","g">>)
    [] format = <<"j","p","e","g">> -> Mime("image", <<"j","p","e","g">>)
    [] format = <<"p","n","g">> -> Mime("image", <<"p","n","g">>)
    [] format = <<"w","e","b","p">> -> Mime("image", <<"w","e","b","p">>)
    [] format = <<"t","i","f","f">> -> Mime("image", <<"t","i","f","f">>)
    [] format = <<"a","v","i","f">> -> Mime("image", <<"a","v","i","f">>)
    [] OTHER -> Mime("application",
                     <<"o","c","t","e","t","-","s","t","r","e","a","m">>)

\* metadata.format || fallback
FormatOr(meta, fallback) == IF meta.format # <<>> THEN meta.format ELSE fallback

\* the headers handleSingleFile sets before it starts the transform
SingleHeaders(file, meta) ==
  CASE op \in {"convert", "single"} ->
         [ ContentType |-> getMimeType(param.s),
           ContentDisposition |-> Attachment(file.name, "", param.s),
           CacheControl |-> NoStore ]
    [] op = "resize" ->
         [ ContentType |-> Mime("image", FormatOr(meta, PngExt)),
           ContentDisposition |->
             Attachment(file.name, "-resized", FormatOr(meta, PngExt)),
           CacheControl |-> NoStore ]
    [] op = "compress" ->
         LET outputFormat == FormatOr(meta, <<"j","p","e","g">>)
             outputExt == IF outputFormat = <<"j","p","e","g">>
                          THEN <<"j","p","g">> ELSE outputFormat
         IN [ ContentType |-> Mime("image", outputFormat),
              ContentDisposition |->
                Attachment(file.name, "-compressed", outputExt),
              CacheControl |-> NoStore ]

ZipName ==
  CASE op = "resize" -> "resized-images"
    [] op = "compress" -> "compressed-images"
    [] OTHER -> "converted-images"

\* the headers the multi pipeline sets before it creates the archive
ZipHeaders ==
  [ ContentType |-> ZipMime,
    ContentDisposition |-> Attachment(ZipName, "", <<"z","i","p">>),
    CacheControl |-> NoStore ]

----------------------------------------------------------------------------
(* Creating the transform *)

\* createConversionPipeline / createCompressionPipeline / sharp().resize():
\* the formats the switch knows, else UNSUPPORTED_FORMAT
createPipeline(meta) ==
  CASE op \in {"convert", "bulk", "single"} ->
         IF param.s \in SUPPORTED_FORMATS THEN Ok(Undef)
         ELSE Throw(AppError("Unsupported format", 400, "UNSUPPORTED_FORMAT"))
    [] op = "compress" ->
         IF FormatOr(meta, <<"j","p","e","g">>)
              \in SUPPORTED_FORMATS \cup { <<"g","i","f">> }
         THEN Ok(Undef)
         ELSE Throw(AppError("Unsupported format for compression", 400,
                             "UNSUPPORTED_FORMAT"))
    [] OTHER -> Ok(Undef)

----------------------------------------------------------------------------
(* Request-level checks of the controllers *)

\* req.body.widths ? req.body.widths.map((w) => (w ? Number(w) : null)) : []
ParseDims(raw) ==
  IF ~Truthy(raw) THEN Ok(<<>>)
  ELSE IF raw.t # "array"
  THEN Throw(PlainError("TypeError: map is not a function"))
  ELSE Ok([k \in 1..Len(raw.a) |->
             IF Truthy(raw.a[k]) THEN ToNumber(raw.a[k]) ELSE Null])

\* a pairing by position among the files that were not skipped
DimAt_Shifted(arr, i) ==
  IF i - Len(errors) \in DOMAIN arr
  THEN OrElse(arr[i - Len(errors)], Null)
  ELSE Null

\* widths[i] || null
DimAt(arr, i) == IF i \in DOMAIN arr THEN OrElse(arr[i], Null) ELSE Null

FilesNotFound == AppError("No image files provided", 400, "FILES_NOT_FOUND")

\* resizeController, from its first line to the routing
resizeChecks ==
  IF N = 0 THEN Throw(FilesNotFound)
  ELSE LET w == ParseDims(body.widths)
           h == ParseDims(body.heights)
       IN IF ~w.ok THEN w
          ELSE IF ~h.ok THEN h
          ELSE IF N > 1 /\ Len(w.val) > 0 /\ Len(w.val) # N
          THEN Throw(AppError("Widths array length must match number of files",
                              400, "DIMENSION_MISMATCH"))
          ELSE IF N > 1 /\ Len(h.val) > 0 /\ Len(h.val) # N
          THEN Throw(AppError("Heights array length must match number of files",
                              400, "DIMENSION_MISMATCH"))
          ELSE Ok([t |-> "dims", widths |-> w.val, heights |-> h.val])

\* the checks a controller makes before it routes the request
RequestChecks ==
  CASE op = "convert" ->
         IF N = 0 THEN Throw(FilesNotFound) ELSE validateFormat(body.format)
    [] op = "compress" ->
         IF N = 0 THEN Throw(FilesNotFound)
         ELSE validateCompressionPercent(body.quality)
    [] op = "resize" -> resizeChecks
    [] op = "bulk" ->
         IF N = 0 THEN Throw(FilesNotFound) ELSE validateFormat(body.format)
    [] op = "single" ->
         \* validateInputFile(req.file) with no file; with a file, every
         \* check is made inside the try block of the handler
         IF N = 0 THEN Throw(AppError("No file provided", 400,
                                      "FILE_NOT_FOUND"))
         ELSE Ok(body.format)

\* sharp(file.path).resize(width, height, ...) for file k: the arguments of
\* the call; the other operations make no such call
ResizeCall(k, p) ==
  IF op = "resize"
  THEN {[file |-> k, width |-> DimAt(p.widths, k),
         height |-> DimAt(p.heights, k)]}
  ELSE {}

\* a routing that sends a pair of files to the single-item pipeline too
IsSingle_UpToTwo == op # "bulk" /\ N \in {1, 2}

\* the request goes to handleSingleFile or to singleConvertController
IsSingle == op # "bulk" /\ N = 1

\* the per-file checks made before the metadata probe, for file k and the
\* validated parameter p
SyncValidate(k, p) ==
  CASE op = "convert" ->
         LET t == validateFileType(files[k])
         IN IF ~t.ok THEN t ELSE IF IsSingle THEN validateFormat(p) ELSE t
    [] op = "compress" -> validateFileType(files[k])
    [] op = "resize" ->
         LET t == validateFileType(files[k])
         IN IF ~t.ok THEN t
            ELSE validateDimensions(DimAt(p.widths, k), DimAt(p.heights, k))
    [] op = "bulk" -> Ok(Undef)
    [] op = "single" ->
         LET t == validateInputFile(files[k])
         IN IF ~t.ok THEN t ELSE validateFormat(p)

\* a probe that accepts whatever it is given
Probe_AcceptsAll(k) == Ok(files[k].image)

\* the metadata probe of file k
Probe(k) ==
  IF op \in {"bulk", "single"} THEN validateImageMetadataBulk(files[k])
  ELSE validateImageMetadata(files[k])

----------------------------------------------------------------------------
(* Staged-file cleanup *)

\* the results safeDelete can return for file k: true when the path was
\* removed or was already gone, false when the file system refuses
UnlinkResults(k) == IF k \in staged /\ faults > 0 THEN {TRUE, FALSE} ELSE {TRUE}

\* a cleanup routine that never sets its guard before the deletion
FlagFirst_Never == FALSE

\* a cleanup routine that always sets its guard before the deletion
FlagFirst_Always == TRUE

\* resizeController's handleSingleFile and singleConvertController set
\* cleanupDone before they await the deletion; convert and compress set it
\* after, and only if the file is gone
FlagFirst == op \in {"resize", "single"}

\* cleanup() of handleSingleFile called by h, up to its await
CleanupCall(h) ==
  IF ~cleanupDone
  THEN \E okk \in UnlinkResults(1) :
         /\ cleanupCalls' = cleanupCalls + 1
         /\ staged' = IF okk THEN staged \ {1} ELSE staged
         /\ faults' = IF okk THEN faults ELSE faults - 1
         /\ cleanupDone' = FlagFirst
         /\ hok' = [hok EXCEPT ![h] = okk]
         /\ hpc' = [hpc EXCEPT ![h] = "await"]
  ELSE /\ hpc' = [hpc EXCEPT ![h] = "done"]
       /\ UNCHANGED <<cleanupCalls, staged, faults, cleanupDone, hok>>

\* cleanup() of handleSingleFile, after its await
CleanupReturn(h) == cleanupDone \/ (~FlagFirst /\ hok[h])

\* cleanup() of the multi pipeline called by h, up to its await: it deletes
\* every path of the pending-cleanup set ftc
SweepCall(h, ftc) ==
  IF ftc # {}
  THEN staged' = staged \ ftc /\ hpc' = [hpc EXCEPT ![h] = "await"]
  ELSE staged' = staged /\ hpc' = [hpc EXCEPT ![h] = "done"]

\* a catch block that answers without deleting the uploaded files
CtlCatch_NoDelete(e, stg, r) ==
  /\ err' = e /\ staged' = stg
  /\ IF N > 0
     THEN pc' = "ctlCatch" /\ res' = r
     ELSE pc' = "done" /\ res' = ErrorResponse(r, e)

\* the controller's catch block (and wrapController's) entered with
\* exception e: it deletes every uploaded file, awaits, then answers
CtlCatch(e, stg, r) ==
  /\ err' = e
  /\ IF N > 0
     THEN pc' = "ctlCatch" /\ staged' = stg \ All /\ res' = r
     ELSE pc' = "done" /\ staged' = stg /\ res' = ErrorResponse(r, e)

----------------------------------------------------------------------------
(* The controllers, from the request to the first await *)

\* new AppError("No files could be processed", 400, "NO_FILES_PROCESSED",
\* { errors }): the constructor declares three parameters, so the fourth
\* argument is stored nowhere
NoFilesProcessed ==
  AppError("No files could be processed", 400, "NO_FILES_PROCESSED")

SkipRecord(k, e) == [file |-> files[k].name, error |-> e.message]

\* a multi pipeline that finalizes the archive whatever processedCount is
AfterLoop_AlwaysFinalize(stg, ftc, pcnt, r, arch) ==
  /\ archiveFinalized' = TRUE
  /\ finalizeCalls' = finalizeCalls + 1
  /\ pc' = "finalize"
  /\ archive' = arch /\ err' = err
  /\ staged' = stg /\ res' = r

\* the code after the dispatch loop of the multi pipeline, to its await
AfterLoop(stg, ftc, pcnt, r, arch) ==
  IF pcnt = 0
  THEN \* archive.destroy(); await cleanup(); throw
       /\ archive' = "destroyed"
       /\ UNCHANGED <<archiveFinalized, finalizeCalls>>
       /\ IF ftc # {}
          THEN /\ pc' = "sweep" /\ staged' = stg \ ftc
               /\ err' = NoFilesProcessed /\ res' = r
          ELSE CtlCatch(NoFilesProcessed, stg, r)
  ELSE \* archiveFinalized = true; await archive.finalize()
       /\ archiveFinalized' = TRUE
       /\ finalizeCalls' = finalizeCalls + 1
       /\ pc' = "finalize"
       /\ archive' = arch /\ err' = err
       /\ staged' = stg /\ res' = r

\* one iteration of the dispatch loop, for file k, run to its await
Iteration(k, p, stg, errs, r, arch) ==
  LET v == SyncValidate(k, p)
  IN /\ err' = err /\ res' = r
     /\ UNCHANGED <<archiveFinalized, finalizeCalls>>
     /\ archive' = arch
     /\ IF v.ok
        THEN \* await validateImageMetadata(file.path)
             /\ pc' = "probe"
             /\ hok' = [hok EXCEPT !["main"] = k \in stg]
             /\ staged' = stg /\ errors' = errs
        ELSE \* errors.push(...); await safeDelete(file.path)
             /\ pc' = "skip"
             /\ staged' = stg \ {k}
             /\ errors' = Append(errs, SkipRecord(k, v.err))
             /\ hok' = hok

\* a dispatch loop that stops at the first file it has appended
EnterIteration_StopsAfterFirstAppend(k, p, stg, ftc, errs, pcnt, r, arch) ==
  /\ idx' = k
  /\ IF k <= N /\ pcnt = 0
     THEN Iteration(k, p, stg, errs, r, arch)
     ELSE /\ errors' = errs /\ hok' = hok
          /\ AfterLoop(stg, ftc, pcnt, r, arch)

\* the dispatch loop of the multi pipeline arriving at file k, run to its
\* next await; past the last file, the code after the loop
EnterIteration(k, p, stg, ftc, errs, pcnt, r, arch) ==
  /\ idx' = k
  /\ IF k <= N
     THEN Iteration(k, p, stg, errs, r, arch)
     ELSE /\ errors' = errs /\ hok' = hok
          /\ AfterLoop(stg, ftc, pcnt, r, arch)

\* the request is rejected by the request-level checks
Rejected(e) ==
  /\ IF op = "bulk" /\ N > 0
     THEN \* bulkConvertController's catch: await cleanup(); throw err
          /\ filesToCleanup' = All
          /\ staged' = staged \ All
          /\ pc' = "sweep" /\ err' = e /\ res' = res
     ELSE /\ CtlCatch(e, staged, res)
          /\ filesToCleanup' = filesToCleanup
  /\ UNCHANGED <<faults, idx, param, singleVars, handlerVars, stream,
                 archive, archiveFinalized, finalizeCalls, entries,
                 resizeArgs, consumed,
                 stalled, processedCount, errors, unhandled>>

\* handleSingleFile up to its first await
SingleEnter(p) ==
  LET v == SyncValidate(1, p)
  IN /\ param' = IF op = "single" /\ v.ok THEN v.val ELSE p
     /\ idx' = 1
     /\ IF v.ok
        THEN \* await validateImageMetadata(file.path)
             /\ pc' = "probe" /\ err' = err
             /\ UNCHANGED <<fsVars, singleVars, handlerVars>>
        ELSE \* catch: await cleanup(); throw err
             /\ pc' = "hsCatch" /\ err' = v.err
             /\ CleanupCall("main")
             /\ listeners' = listeners
     /\ UNCHANGED <<res, stream, multiVars, unhandled>>

\* the first file the bulk controller's validation loop rejects
FirstInvalid == 
  IF \E k \in All : ~validateInputFile(files[k]).ok
  THEN CHOOSE k \in All : /\ ~validateInputFile(files[k]).ok
                          /\ \A j \in 1..(k - 1) : validateInputFile(files[j]).ok
  ELSE 0

\* handleMultipleFiles / bulkConvertController up to the first await
MultiEnter(p) ==
  /\ param' = p
  /\ IF op = "bulk" /\ FirstInvalid # 0
     THEN \* validateInputFile threw: await cleanup(); throw err
          /\ filesToCleanup' = All
          /\ staged' = staged \ All
          /\ pc' = "sweep"
          /\ err' = validateInputFile(files[FirstInvalid]).err
          /\ UNCHANGED <<res, idx, hok, errors, archive, archiveFinalized,
                         finalizeCalls>>
     ELSE /\ filesToCleanup' = All
          /\ EnterIteration(1, p, staged, All, <<>>, 0,
                            [res EXCEPT !.headers = ZipHeaders], "open")
  /\ UNCHANGED <<faults, singleVars, hpc, stream, entries, resizeArgs,
                 consumed, stalled,
                 processedCount, unhandled>>

ControllerStart ==
  /\ op \in Ops /\ pc = "start"
  /\ LET v == RequestChecks
     IN IF ~v.ok THEN Rejected(v.err)
        ELSE IF IsSingle THEN SingleEnter(v.val)
        ELSE MultiEnter(v.val)
  /\ UNCHANGED reqVars

----------------------------------------------------------------------------
(* The single-item pipeline *)

\* validateImageMetadata returns in handleSingleFile
ProbeResumeSingle ==
  /\ pc = "probe" /\ IsSingle
  /\ LET v == Probe(1)
         c == IF v.ok THEN createPipeline(v.val) ELSE v
         r == IF v.ok
              THEN [res EXCEPT !.headers = SingleHeaders(files[1], v.val)]
              ELSE res
     IN /\ res' = r
        /\ IF c.ok
           THEN \* the listeners are registered, pipeline.pipe(res)
                /\ listeners' = TRUE
                /\ resizeArgs' = resizeArgs \cup ResizeCall(1, param)
                /\ stream' = [stream EXCEPT ![1] = "flowing"]
                /\ pc' = "done" /\ err' = err
                /\ UNCHANGED <<fsVars, cleanupDone, cleanupCalls, handlerVars>>
           ELSE \* catch: await cleanup(); throw err
                /\ pc' = "hsCatch" /\ err' = c.err
                /\ CleanupCall("main")
                /\ UNCHANGED <<listeners, stream, resizeArgs>>
  /\ UNCHANGED <<reqVars, idx, param, filesToCleanup, archive,
                 archiveFinalized, finalizeCalls, entries, consumed, stalled,
                 processedCount, errors, unhandled>>

\* cleanup() returns in the catch block of handleSingleFile; the exception
\* reaches the controller's catch block
HsCatchResume ==
  /\ pc = "hsCatch"
  /\ hpc' = [hpc EXCEPT !["main"] = "done"]
  /\ cleanupDone' = CleanupReturn("main")
  /\ CtlCatch(err, staged, res)
  /\ UNCHANGED <<reqVars, faults, idx, param, listeners, cleanupCalls, hok,
                 stream, multiVars, unhandled>>

\* the deletions of the controller's catch block have settled: it answers
CtlCatchResume ==
  /\ pc = "ctlCatch"
  /\ pc' = "done"
  /\ res' = ErrorResponse(res, err)
  /\ UNCHANGED <<reqVars, fsVars, idx, err, param, singleVars, handlerVars,
                 stream, multiVars, unhandled>>

\* the transform writes its first bytes into the response
CodecData ==
  /\ IsSingle /\ stream[1] = "flowing"
  /\ ~res.headersSent /\ ~res.closed /\ ~res.ended
  /\ res' = WriteBytes(res)
  /\ UNCHANGED <<reqVars, fsVars, mainVars, singleVars, handlerVars, stream,
                 multiVars, unhandled>>

\* the transform ends its output; pipe() ends the response unless the
\* response is gone
CodecEnd ==
  /\ IsSingle
  /\ \/ stream[1] = "failedEnd"
     \/ stream[1] = "flowing" /\ (res.body = "stream" \/ res.closed)
  /\ stream' = [stream EXCEPT ![1] = "done"]
  /\ res' = IF res.closed THEN res ELSE EndStream(res)
  /\ UNCHANGED <<reqVars, fsVars, mainVars, singleVars, handlerVars,
                 multiVars, unhandled>>

\* the transform emits 'error': the codec 'error' handler runs to its await
CodecError ==
  /\ IsSingle /\ stream[1] = "flowing"
  /\ \E ends \in BOOLEAN :
       stream' = [stream EXCEPT ![1] = IF ends THEN "failedEnd" ELSE "failed"]
  /\ CleanupCall("codecError")
  /\ res' = IF cleanupDone THEN CodecErrorResponse(res) ELSE res
  /\ UNCHANGED <<reqVars, mainVars, listeners, multiVars, unhandled>>

\* the codec 'error' handler after `await cleanup()`
CodecErrorResume ==
  /\ hpc["codecError"] = "await"
  /\ hpc' = [hpc EXCEPT !["codecError"] = "done"]
  /\ cleanupDone' = CleanupReturn("codecError")
  /\ res' = CodecErrorResponse(res)
  /\ UNCHANGED <<reqVars, fsVars, mainVars, listeners, cleanupCalls, hok,
                 stream, multiVars, unhandled>>

\* the response emits 'finish'
ResFinish ==
  /\ res.ended /\ ~res.finished /\ ~res.closed
  /\ res' = [res EXCEPT !.finished = TRUE]
  /\ IF IsSingle /\ listeners
     THEN CleanupCall("finish")
     ELSE UNCHANGED <<fsVars, cleanupDone, cleanupCalls, handlerVars>>
  /\ UNCHANGED <<reqVars, mainVars, listeners, stream, multiVars, unhandled>>

\* the response emits 'close' (the client went away, or the response is
\* complete) where no archive exists
ResClose ==
  /\ op \notin ValidatorNames
  /\ pc # "start" /\ ~res.closed
  /\ IsSingle \/ archive = "none"
  /\ res' = [res EXCEPT !.closed = TRUE]
  /\ IF IsSingle /\ listeners
     THEN CleanupCall("close")
     ELSE UNCHANGED <<fsVars, cleanupDone, cleanupCalls, handlerVars>>
  /\ UNCHANGED <<reqVars, mainVars, listeners, stream, multiVars, unhandled>>

\* the response emits 'error'
ResError ==
  /\ IsSingle /\ listeners
  /\ ~res.closed /\ ~res.finished /\ hpc["resError"] = "idle"
  /\ CleanupCall("resError")
  /\ UNCHANGED <<reqVars, res, mainVars, listeners, stream, multiVars,
                 unhandled>>

\* cleanup() returns in a 'finish', 'close' or 'error' listener of the
\* response
CleanupResume(h) ==
  /\ IsSingle /\ hpc[h] = "await"
  /\ hpc' = [hpc EXCEPT ![h] = "done"]
  /\ cleanupDone' = CleanupReturn(h)
  /\ UNCHANGED <<reqVars, fsVars, res, mainVars, listeners, cleanupCalls,
                 hok, stream, multiVars, unhandled>>

----------------------------------------------------------------------------
(* The multi-item pipeline *)

\* what the metadata probe of file k can return: the probe of a path that
\* was deleted before it started fails; one deleted while it ran may have
\* been read already
ProbeOutcomes(k) ==
  LET gone == Throw(AppError(IF op \in {"bulk", "single"}
                             THEN "Failed to read image metadata: "
                                    \o files[k].name
                             ELSE "Failed to read image metadata", 400,
                             "INVALID_IMAGE"))
  IN IF ~hok["main"] THEN {gone}
     ELSE IF k \in staged THEN {Probe(k)}
     ELSE {Probe(k), gone}

\* validateImageMetadata returns in the dispatch loop: the file is appended
\* to the archive, or skipped
ProbeResumeMulti ==
  /\ pc = "probe" /\ ~IsSingle
  /\ \E v \in ProbeOutcomes(idx) :
       LET c == IF v.ok THEN createPipeline(v.val) ELSE v
       IN IF c.ok
          THEN /\ entries' = Append(entries, idx)
               /\ resizeArgs' = resizeArgs \cup ResizeCall(idx, param)
               /\ stream' = [stream EXCEPT ![idx] =
                               IF idx \in staged THEN "flowing" ELSE "missing"]
               /\ processedCount' = processedCount + 1
               /\ filesToCleanup' = filesToCleanup
               /\ EnterIteration(idx + 1, param, staged, filesToCleanup,
                                 errors, processedCount + 1, res, archive)
          ELSE \* catch: errors.push(...); await safeDelete(file.path)
               /\ pc' = "skip"
               /\ staged' = staged \ {idx}
               /\ errors' = Append(errors, SkipRecord(idx, c.err))
               /\ UNCHANGED <<idx, err, res, hok, archive, archiveFinalized,
                              finalizeCalls, entries, resizeArgs, stream,
                              processedCount,
                              filesToCleanup>>
  /\ UNCHANGED <<reqVars, faults, param, singleVars, hpc, consumed, stalled,
                 unhandled>>

\* safeDelete returns in the per-file catch block: the path leaves the
\* pending-cleanup set and the loop goes on
SkipResume ==
  /\ pc = "skip"
  /\ filesToCleanup' = filesToCleanup \ {idx}
  /\ EnterIteration(idx + 1, param, staged, filesToCleanup \ {idx}, errors,
                    processedCount, res, archive)
  /\ UNCHANGED <<reqVars, faults, param, singleVars, hpc, stream, entries,
                 resizeArgs,
                 consumed, stalled, processedCount, unhandled>>

\* cleanup() returns in the main flow: the set is cleared and the exception
\* is thrown to the controller's catch block
SweepResumeMain ==
  /\ pc = "sweep"
  /\ filesToCleanup' = {}
  /\ CtlCatch(err, staged, res)
  /\ UNCHANGED <<reqVars, faults, idx, param, singleVars, handlerVars, stream,
                 archive, archiveFinalized, finalizeCalls, entries,
                 resizeArgs, consumed,
                 stalled, processedCount, errors, unhandled>>

\* the entry the archive is reading, 0 if none
ActiveEntry == IF consumed < Len(entries) THEN entries[consumed + 1] ELSE 0

\* the archive writes its first bytes into the response
ArchiveData ==
  /\ archive = "open" /\ ActiveEntry # 0 /\ ~stalled
  /\ ~res.headersSent /\ ~res.closed /\ ~res.ended
  /\ res' = WriteBytes(res)
  /\ UNCHANGED <<reqVars, fsVars, mainVars, singleVars, handlerVars, stream,
                 multiVars, unhandled>>

\* a hook that removes the path from the set and deletes nothing
PassthroughEnd_NoDelete ==
  /\ archive = "open" /\ ActiveEntry # 0 /\ ~stalled
  /\ res.headersSent \/ res.closed
  /\ stream[ActiveEntry] \in {"flowing", "failedEnd"}
  /\ stream' = [stream EXCEPT ![ActiveEntry] = "done"]
  /\ filesToCleanup' = filesToCleanup \ {ActiveEntry}
  /\ consumed' = consumed + 1
  /\ UNCHANGED <<reqVars, fsVars, res, mainVars, singleVars, handlerVars,
                 archive, archiveFinalized, finalizeCalls, entries,
                 resizeArgs, stalled,
                 processedCount, errors, unhandled>>

\* the PassThrough of the active entry emits 'end': its hook deletes the
\* staged file and removes the path from the pending-cleanup set
PassthroughEnd ==
  /\ archive = "open" /\ ActiveEntry # 0 /\ ~stalled
  /\ res.headersSent \/ res.closed
  /\ stream[ActiveEntry] \in {"flowing", "failedEnd"}
  /\ stream' = [stream EXCEPT ![ActiveEntry] = "done"]
  /\ staged' = staged \ {ActiveEntry}
  /\ filesToCleanup' = filesToCleanup \ {ActiveEntry}
  /\ consumed' = consumed + 1
  /\ UNCHANGED <<reqVars, faults, res, mainVars, singleVars, handlerVars,
                 archive, archiveFinalized, finalizeCalls, entries,
                 resizeArgs, stalled,
                 processedCount, errors, unhandled>>

\* the transform of appended file k emits 'error': the listener logs it (the
\* bulk controller also records it); pipe() forwards nothing
CodecErrorMulti(k) ==
  /\ ~IsSingle /\ k \in All /\ stream[k] \in {"flowing", "missing"}
  /\ \E ends \in BOOLEAN :
       stream' = [stream EXCEPT ![k] = IF ends THEN "failedEnd" ELSE "failed"]
  /\ errors' = IF op = "bulk"
               THEN Append(errors, [file |-> files[k].name,
                                    error |-> "Conversion failed"])
               ELSE errors
  /\ UNCHANGED <<reqVars, fsVars, res, mainVars, singleVars, handlerVars,
                 filesToCleanup, archive, archiveFinalized, finalizeCalls,
                 entries, resizeArgs, consumed, stalled, processedCount,
                 unhandled>>

\* the archive emits 'error': its handler runs to `await cleanup()`
ArchiveError ==
  /\ archive = "open" /\ ActiveEntry # 0
  /\ archive' = "errored"
  /\ SweepCall("archiveError", filesToCleanup)
  /\ unhandled' = (unhandled \/ (filesToCleanup = {} /\ ~res.headersSent))
  /\ UNCHANGED <<reqVars, faults, res, mainVars, singleVars, hok, stream,
                 filesToCleanup, archiveFinalized, finalizeCalls, entries,
                 resizeArgs,
                 consumed, stalled, processedCount, errors>>

\* the archive has written everything and emits 'end': pipe() ends the
\* response, the 'end' listener runs cleanup()
ArchiveEnd ==
  /\ archive = "open" /\ archiveFinalized /\ finalizeCalls > 0
  /\ ActiveEntry = 0 /\ ~stalled /\ ~res.closed
  /\ archive' = "ended"
  /\ res' = EndStream(res)
  /\ SweepCall("archiveEnd", filesToCleanup)
  /\ UNCHANGED <<reqVars, faults, mainVars, singleVars, hok, stream,
                 filesToCleanup, archiveFinalized, finalizeCalls, entries,
                 resizeArgs,
                 consumed, stalled, processedCount, errors, unhandled>>

\* the response emits 'close' in the multi-item pipeline
ResCloseMulti ==
  /\ ~IsSingle /\ archive # "none" /\ ~res.closed
  /\ res' = [res EXCEPT !.closed = TRUE]
  /\ IF ~archiveFinalized
     THEN \* archive.destroy(); await cleanup()
          /\ archive' = "destroyed"
          /\ SweepCall("close", filesToCleanup)
          /\ stalled' = stalled
     ELSE \* nothing is done; the archive output has lost its reader
          /\ \E st \in (IF archive = "open" THEN BOOLEAN ELSE {stalled}) :
               stalled' = st
          /\ UNCHANGED <<archive, staged, hpc>>
  /\ UNCHANGED <<reqVars, faults, mainVars, singleVars, hok, stream,
                 filesToCleanup, archiveFinalized, finalizeCalls, entries,
                 resizeArgs,
                 consumed, processedCount, errors, unhandled>>

\* cleanup() returns in an archive or response listener of the multi-item
\* pipeline: the set is cleared; the archive 'error' handler then throws
\* if no header was sent, and nothing catches it
SweepResume(h) ==
  /\ ~IsSingle /\ hpc[h] = "await"
  /\ hpc' = [hpc EXCEPT ![h] = "done"]
  /\ filesToCleanup' = {}
  /\ unhandled' = (unhandled \/ (h = "archiveError" /\ ~res.headersSent))
  /\ UNCHANGED <<reqVars, fsVars, res, mainVars, singleVars, hok, stream,
                 archive, archiveFinalized, finalizeCalls, entries,
                 resizeArgs, consumed,
                 stalled, processedCount, errors>>

\* archive.finalize() resolves
FinalizeResolve ==
  /\ pc = "finalize" /\ archive \in {"open", "ended"}
  /\ ActiveEntry = 0 /\ ~stalled
  /\ pc' = "done"
  /\ UNCHANGED <<reqVars, fsVars, res, idx, err, param, singleVars,
                 handlerVars, stream, multiVars, unhandled>>

\* archive.finalize() rejects: catch, `await cleanup(); throw err`
FinalizeReject ==
  /\ pc = "finalize" /\ archive = "errored"
  /\ IF filesToCleanup # {}
     THEN /\ pc' = "sweep" /\ staged' = staged \ filesToCleanup
          /\ err' = PlainError("archive error") /\ res' = res
     ELSE CtlCatch(PlainError("archive error"), staged, res)
  /\ UNCHANGED <<reqVars, faults, idx, param, singleVars, handlerVars, stream,
                 multiVars, unhandled>>

----------------------------------------------------------------------------
Next ==
  \/ ControllerStart
  \/ ProbeResumeSingle
  \/ HsCatchResume
  \/ CtlCatchResume
  \/ CodecData
  \/ CodecEnd
  \/ CodecError
  \/ CodecErrorResume
  \/ ResFinish
  \/ ResClose
  \/ ResError
  \/ \E h \in {"finish", "close", "resError"} : CleanupResume(h)
  \/ ProbeResumeMulti
  \/ SkipResume
  \/ SweepResumeMain
  \/ ArchiveData
  \/ PassthroughEnd
  \/ \E k \in 1..MaxFiles : CodecErrorMulti(k)
  \/ ArchiveError
  \/ ArchiveEnd
  \/ ResCloseMulti
  \/ \E h \in {"close", "archiveError", "archiveEnd"} : SweepResume(h)
  \/ FinalizeResolve
  \/ FinalizeReject

Spec == Init /\ [][Next]_vars

----------------------------------------------------------------------------
(* The endpoints of server.js and the merged controllers *)

EndpointRequests ==
  { [op |-> "serverConvert", files |-> f,
     body |-> [NoBody EXCEPT !.format = x]] :
      f \in {<<>>, <<GoodPng>>, <<Corrupt>>, <<HugePng>>},
      x \in AllFormatInputs }
  \cup
  { [op |-> o, files |-> f, body |-> [NoBody EXCEPT !.format = x]] :
      o \in {"serverBulk", "mergedConvert"},
      f \in {<<>>, <<GoodPng>>, <<Corrupt>>, <<GoodPng, GoodPng>>,
             <<GoodPng, Corrupt>>, <<Corrupt, HugePng>>},
      x \in {Str(<<"w","e","b","p">>), Str(<<"j","p","g">>), Undef} }
  \cup
  { [op |-> "mergedResize", files |-> f,
     body |-> [NoBody EXCEPT !.widths = w]] :
      f \in {<<>>, <<GoodPng>>, <<Corrupt>>, <<HugePng>>,
             <<GoodPng, GoodPng>>, <<GoodPng, Corrupt>>},
      w \in {Arr(<<W100, W200>>), Arr(<<W10001, W100>>), Undef} }

EndpointInit == \E r \in EndpointRequests : InitFor(r)

\* req.body.format?.toLowerCase()?.trim()
LowerTrim(format) ==
  IF format.t = "string" THEN Str(Trim(ToLowerCase(format.s))) ELSE Undef

\* !format || !SUPPORTED_FORMATS.includes(format)
FormatRefused(format) ==
  ~Truthy(format) \/ format.s \notin SUPPORTED_FORMATS

\* res.status(status).json({ success: false, error })
SendFailure(r, status, error) ==
  [r EXCEPT !.status = status, !.json = [success |-> FALSE, error |-> error],
            !.body = "json", !.headersSent = TRUE, !.ended = TRUE,
            !.headers.ContentType = JsonMime]

\* res.status(200).send(buffer)
SendBuffer(r) ==
  [r EXCEPT !.status = 200, !.body = "buffer", !.headersSent = TRUE,
            !.ended = TRUE]

\* sharp(path).metadata() of the routes that do not wrap it: the metadata,
\* or the exception of the codec
RawProbe(file) ==
  IF file.image.readable THEN Ok(file.image)
  ELSE Throw(PlainError("Input file contains unsupported image format"))

\* metadata.width > 20000 || metadata.height > 20000
Oversized(meta) == meta.width > MAX_DIMENSION \/ meta.height > MAX_DIMENSION

\* what the handler leaves behind: the response, the staged files, the
\* exception that left it, the entries of its archive
Outcome(r, stg, e, ents) ==
  /\ res' = r /\ staged' = stg /\ err' = e /\ entries' = ents
  /\ pc' = "done"
  /\ UNCHANGED <<reqVars, faults, idx, param, singleVars, handlerVars, stream,
                 filesToCleanup, archive, archiveFinalized, finalizeCalls,
                 resizeArgs, consumed, stalled, processedCount, errors,
                 unhandled>>

\* POST /convert of server.js, from the request to its response
ServerConvert ==
  /\ op = "serverConvert" /\ pc = "start"
  /\ LET format == LowerTrim(body.format)
         meta == RawProbe(files[1])
     IN IF N = 0
        THEN Outcome(SendFailure(res, 400, "No image file provided"),
                     staged, err, entries)
        ELSE IF FormatRefused(format)
        THEN Outcome(SendFailure(res, 400, InvalidFormatText), {}, err,
                     entries)
        ELSE IF ~meta.ok
        THEN Outcome(SendFailure(res, 400, "Invalid or corrupted image file"),
                     {}, err, entries)
        ELSE IF Oversized(meta.val)
        THEN Outcome(SendFailure(res, 400, "Image dimensions too large "
                                           \o "(max 20000x20000)"),
                     {}, err, entries)
        ELSE \E converted \in BOOLEAN :
               IF converted
               THEN Outcome(
                      SendBuffer(
                        [res EXCEPT !.headers =
                           [ContentType |-> getMimeType(format.s),
                            ContentDisposition |->
                              Attachment(files[1].name, "", format.s),
                            CacheControl |->
                              "no-cache, no-store, must-revalidate"]]),
                      {}, err, entries)
               ELSE \* pipeline.toBuffer() rejects: the catch block
                    Outcome(SendFailure(res, 500, "Conversion failed"), {},
                            err, entries)

\* the files of a batch the loop of POST /convert/bulk can convert
Convertible(k) == RawProbe(files[k]).ok /\ ~Oversized(files[k].image)

\* the ordered subsequence of the file indexes that belong to S
InOrder(S) == SelectSeq([k \in 1..N |-> k], LAMBDA k : k \in S)

\* POST /convert/bulk of server.js, from the request to the end of its
\* response; `broken` are the files whose conversion the codec fails
ServerBulk ==
  /\ op = "serverBulk" /\ pc = "start"
  /\ LET format == LowerTrim(body.format)
     IN IF N = 0
        THEN Outcome(SendFailure(res, 400, "No image files provided"),
                     staged, err, entries)
        ELSE IF FormatRefused(format)
        THEN Outcome(SendFailure(res, 400, InvalidFormatText), {}, err,
                     entries)
        ELSE \E broken \in SUBSET {k \in All : Convertible(k)} :
               Outcome(
                 EndStream(WriteBytes(
                   [res EXCEPT !.headers =
                      [ContentType |-> ZipMime,
                       ContentDisposition |->
                         Attachment("converted-images", "", <<"z","i","p">>),
                       CacheControl |-> ""]])),
                 {}, err,
                 InOrder({k \in All : Convertible(k) /\ k \notin broken}))

\* req.body.widths ? req.body.widths.map(Number) : []
MapNumber(raw) ==
  IF ~Truthy(raw) THEN <<>>
  ELSE [k \in 1..Len(raw.a) |-> ToNumber(raw.a[k])]

\* the response of a merged controller that streams one image: its headers,
\* then the whole body, or nothing but the headers where the codec fails
\* before its first byte and the handler answers (resize) or rethrows
StreamOne(headers, converted, failure) ==
  IF converted THEN EndStream(WriteBytes([res EXCEPT !.headers = headers]))
  ELSE IF failure = Undef THEN [res EXCEPT !.headers = headers]
  ELSE SendJson([res EXCEPT !.headers = headers], 500, failure)

\* the response of a merged controller that streams an archive: complete
\* if every appended transform ended, else left open
StreamZip(name, complete) ==
  LET r == WriteBytes(
             [res EXCEPT !.headers =
                [ContentType |-> ZipMime,
                 ContentDisposition |-> Attachment(name, "", <<"z","i","p">>),
                 CacheControl |-> ""]])
  IN IF complete THEN EndStream(r) ELSE r

\* the staged files a merged controller's archive leaves on disk: those of
\* the first transform that failed and of every entry queued behind it
LeftBehind(appended, broken) ==
  {k \in appended : \E b \in broken : b <= k}

\* resizeController of resizeControllers.js, from the request to the end of
\* its response
MergedResize ==
  /\ op = "mergedResize" /\ pc = "start"
  /\ LET widths == MapNumber(body.widths)
         heights == MapNumber(body.heights)
         \* validateDimensions of resizeControllers.js differs from the
         \* one of resizeController.js in its last test only, which
         \* compares without testing for null first: null > 10000 is false
         dims(k) == validateDimensions(DimAt(widths, k), DimAt(heights, k))
         meta == RawProbe(files[1])
         accepted == {k \in All : dims(k).ok /\ RawProbe(files[k]).ok}
     IN IF N = 0
        THEN Outcome(res, staged,
                     AppError("No image files provided", 400,
                              "FILES_NOT_FOUND"), entries)
        ELSE IF N = 1
        THEN IF ~dims(1).ok THEN Outcome(res, staged, dims(1).err, entries)
             ELSE IF ~meta.ok THEN Outcome(res, staged, meta.err, entries)
             ELSE IF Oversized(meta.val)
             THEN Outcome(res, {},
                          AppError("Image dimensions too large", 400,
                                   "INPUT_DIMENSION_TOO_LARGE"), entries)
             ELSE \E converted \in BOOLEAN :
                    Outcome(
                      StreamOne(
                        [ContentType |->
                           Mime("image", FormatOr(meta.val, PngExt)),
                         ContentDisposition |->
                           Attachment(files[1].name, "-resized",
                                      FormatOr(meta.val, PngExt)),
                         CacheControl |-> "no-cache"],
                        converted,
                        [error |-> "Resize failed"]),
                      \* the deletion on success hangs on res 'end', an
                      \* event a response never emits
                      IF converted THEN staged ELSE {}, err, entries)
        ELSE \E broken \in SUBSET accepted :
               Outcome(StreamZip("resized-images", broken = {}),
                       LeftBehind(accepted, broken), err, InOrder(accepted))

\* convertController of unnamed/part_000, from the request to the end of
\* its response
MergedConvert ==
  /\ op = "mergedConvert" /\ pc = "start"
  /\ LET format == LowerTrim(body.format)
         meta == RawProbe(files[1])
         accepted == {k \in All : Convertible(k)}
     IN IF N = 0
        THEN Outcome(res, staged,
                     AppError("No image files provided", 400,
                              "FILES_NOT_FOUND"), entries)
        ELSE IF FormatRefused(format)
        THEN Outcome(res, {}, AppError(InvalidFormatText, 400,
                                       "INVALID_FORMAT"), entries)
        ELSE IF N = 1
        THEN IF ~meta.ok THEN Outcome(res, staged, meta.err, entries)
             ELSE IF Oversized(meta.val)
             THEN Outcome(res, {},
                          AppError("Image size is larger than 20000", 400,
                                   "LARGE_IMAGE_SIZE_ERROR"), entries)
             ELSE \E converted \in BOOLEAN :
                    Outcome(
                      StreamOne(
                        [ContentType |-> getMimeType(format.s),
                         ContentDisposition |->
                           Attachment(files[1].name, "", format.s),
                         CacheControl |-> "no-cache"],
                        converted, Undef),
                      {}, err, entries)
        ELSE \E broken \in SUBSET accepted :
               Outcome(StreamZip("converted-images", broken = {}),
                       LeftBehind(accepted, broken), err, InOrder(accepted))

EndpointNext ==
  \/ Next
  \/ ServerConvert
  \/ ServerBulk
  \/ MergedResize
  \/ MergedConvert

\* every route of the repository
EndpointSpec == (Init \/ EndpointInit) /\ [][EndpointNext]_vars

----------------------------------------------------------------------------
(* safeDelete, called directly *)

\* the path the upload middleware staged file k under
PathOf(k) == Str(<<"f", ToString(k)>>)

\* fs.unlink(arg) where the paths of `present` exist and unlink is refused
\* for those of `refused`
unlink(arg, present, refused) ==
  IF arg.t # "string"
  THEN [ok |-> FALSE, code |-> "ERR_INVALID_ARG_TYPE", present |-> present]
  ELSE IF \E k \in present : PathOf(k) = arg
  THEN LET k == CHOOSE j \in present : PathOf(j) = arg
       IN IF k \in refused
          THEN [ok |-> FALSE, code |-> "EPERM", present |-> present]
          ELSE [ok |-> TRUE, code |-> "", present |-> present \ {k}]
  ELSE [ok |-> FALSE, code |-> "ENOENT", present |-> present]

Returned(v, present) == [threw |-> FALSE, ret |-> v, present |-> present]

\* safeDelete of convertController.js and of the compress controller
safeDeleteConvert(arg, present, refused) ==
  IF arg.t # "string" \/ Trim(arg.s) = <<>>
  THEN Returned(Bool(FALSE), present)
  ELSE LET u == unlink(arg, present, refused)
       IN IF u.ok THEN Returned(Bool(TRUE), u.present)
          ELSE IF u.code = "ENOENT" THEN Returned(Bool(TRUE), u.present)
          ELSE Returned(Bool(FALSE), u.present)

\* safeDelete of resizeController.js
safeDeleteResize(arg, present, refused) ==
  IF ~Truthy(arg) THEN Returned(Undef, present)
  ELSE Returned(Undef, unlink(arg, present, refused).present)

\* safeDelete of server.js
safeDeleteServer(arg, present, refused) ==
  Returned(Undef, unlink(arg, present, refused).present)

\* a delete helper that lets the rejection of unlink out
safeDelete_NoCatch(arg, present, refused) ==
  LET u == unlink(arg, present, refused)
  IN [threw |-> ~u.ok, ret |-> Undef, present |-> u.present]

\* the safeDelete the code of `op` calls
safeDelete(arg, present, refused) ==
  CASE op \in {"convert", "compress"} -> safeDeleteConvert(arg, present, refused)
    [] op \in {"resize", "bulk", "single"} ->
         safeDeleteResize(arg, present, refused)
    [] OTHER -> safeDeleteServer(arg, present, refused)

\* the arguments safeDelete is called with
DeleteArgs ==
  {Undef, Null, Str(<<>>), Str(<<" ">>)} \cup {PathOf(k) : k \in 1..MaxFiles}

\* every file system over the staged paths, and every module's safeDelete
FsInit ==
  /\ op \in Ops \cup {"server"}
  /\ files = [k \in 1..MaxFiles |-> GoodPng] /\ body = NoBody
  /\ staged \in SUBSET (1..MaxFiles)
  /\ locked \in SUBSET (1..MaxFiles)
  /\ faults = 0 /\ call = NoCall
  /\ stream = [k \in 1..MaxFiles |-> "none"]
  /\ Idle

\* `await safeDelete(a)`
DeleteCall(a) ==
  LET r == safeDelete(a, staged, locked)
  IN /\ staged' = r.present
     /\ call' = [made |-> TRUE, arg |-> a, threw |-> r.threw, ret |-> r.ret,
                 before |-> staged]
     /\ UNCHANGED <<op, files, body, locked, faults, res, mainVars,
                    singleVars, handlerVars, stream, multiVars, unhandled>>

FsNext == \E a \in DeleteArgs : DeleteCall(a)

FsSpec == FsInit /\ [][FsNext]_vars

----------------------------------------------------------------------------
(* The validators, called directly *)

\* the values of a width or height form field: empty, zero, negative,
\* fractional, not a number, and integers up to and above the ceiling
RawDimensions ==
  { Empty, Str(<<"0">>), Str(<<"-","5">>), Str(<<"1",".","5">>),
    Str(<<"a","b","c">>), W100, Str(<<"1","0","0","0","0">>), W10001 }

\* a widths or heights field with one item, or none
DimensionFields == {Arr(<<x>>) : x \in RawDimensions} \cup {Undef}

\* the values of the quality form field
PercentInputs ==
  { Undef, Null, Str(<<"a","b","c">>), Str(<<>>), Str(<<"0">>),
    Str(<<"0",".","9">>), Str(<<"1">>), Str(<<"1",".","4">>),
    Str(<<"5","0",".","5">>), Str(<<"9","9",".","5">>),
    Str(<<"1","0","0">>), Str(<<"1","0","0",".","1">>),
    Str(<<"1","0","1">>), Str(<<"-","5">>) }

\* uploads by extension and MIME type, each allowed or not
TypeProfiles ==
  { [GoodPng EXCEPT !.ext = e, !.mimetype = m] :
      e \in { PngExt, <<"P","N","G">>, <<"g","i","f">>, <<"b","m","p">>,
              <<"t","x","t">>, <<>> },
      m \in { PngMime, <<"I","M","A","G","E","/","P","N","G">>, BmpMime,
              <<"t","e","x","t","/","p","l","a","i","n">> } }

\* what the metadata probe finds: nothing readable, or a width and a height
\* that are missing (0), small, at the ceiling or above it
ProbedProfiles ==
  { [GoodPng EXCEPT !.image = [readable |-> TRUE, width |-> w, height |-> h,
                               format |-> PngExt]] :
      w, h \in {0, 1, MAX_DIMENSION, MAX_DIMENSION + 1} }
    \cup {Corrupt}

ValidatorCalls ==
  { [op |-> "validateFormat", files |-> <<>>,
     body |-> [NoBody EXCEPT !.format = x]] :
      x \in AllFormatInputs
              \cup {Null, Str(<<>>), Str(<<" ">>), Str(<<" ","P","N","G">>),
                    Str(<<"J","P","E","G">>), Str(<<"g","i","f">>)} }
  \cup
  { [op |-> "validateDimensions", files |-> <<>>,
     body |-> [NoBody EXCEPT !.widths = w, !.heights = h]] :
      w, h \in DimensionFields }
  \cup
  { [op |-> "validateCompressionPercent", files |-> <<>>,
     body |-> [NoBody EXCEPT !.quality = x]] : x \in PercentInputs }
  \cup
  { [op |-> "validateFileType", files |-> <<f>>, body |-> NoBody] :
      f \in TypeProfiles }
  \cup
  { [op |-> "validateImageMetadata", files |-> <<f>>, body |-> NoBody] :
      f \in ProbedProfiles }

ValInit == \E r \in ValidatorCalls : InitFor(r)

\* the validator was called on `a` and returned or threw
Return(r, a, next) ==
  /\ call' = [made |-> TRUE, arg |-> a, threw |-> ~r.ok,
              ret |-> IF r.ok THEN r.val ELSE Undef, before |-> {}]
  /\ err' = IF r.ok THEN NoError ELSE r.err
  /\ pc' = next
  /\ UNCHANGED <<op, files, body, locked, fsVars, res, idx, param,
                 singleVars, handlerVars, stream, multiVars, unhandled>>

\* validateFormat(req.body.format)
FormatCall ==
  /\ op = "validateFormat" /\ pc = "start"
  /\ Return(validateFormat(body.format), body.format, "done")

\* validateFormat applied to the value it returned
FormatCallAgain ==
  /\ op = "validateFormat" /\ pc = "done" /\ ~call.threw
  /\ Return(validateFormat(call.ret), call.ret, "again")

\* validateDimensions(width, height) on the first items of the parsed
\* arrays, as handleSingleFile receives them from resizeController
DimensionsCall ==
  /\ op = "validateDimensions" /\ pc = "start"
  /\ LET width == DimAt(ParseDims(body.widths).val, 1)
         height == DimAt(ParseDims(body.heights).val, 1)
     IN Return(validateDimensions(width, height), Arr(<<width, height>>),
               "done")

\* validateCompressionPercent(req.body.quality)
PercentCall ==
  /\ op = "validateCompressionPercent" /\ pc = "start"
  /\ Return(validateCompressionPercent(body.quality), body.quality, "done")

\* validateFileType(file)
FileTypeCall ==
  /\ op = "validateFileType" /\ pc = "start"
  /\ Return(validateFileType(files[1]), files[1], "done")

\* await validateImageMetadata(file.path)
MetadataCall ==
  /\ op = "validateImageMetadata" /\ pc = "start"
  /\ Return(validateImageMetadata(files[1]), files[1], "done")

ValNext ==
  \/ Next
  \/ FormatCall \/ FormatCallAgain \/ DimensionsCall \/ PercentCall
  \/ FileTypeCall \/ MetadataCall

\* the controllers and, beside them, each validator on inputs of its own
ValSpec == (Init \/ ValInit) /\ [][ValNext]_vars

----------------------------------------------------------------------------
(* Properties *)

\* the steps the program takes without anything new going wrong: every step
\* of Next but the failure events (a codec error, an archive error, an error
\* of the response) and the response's 'close'
Progress ==
  \/ ControllerStart
  \/ ProbeResumeSingle
  \/ HsCatchResume
  \/ CtlCatchResume
  \/ CodecData
  \/ CodecEnd
  \/ CodecErrorResume
  \/ ResFinish
  \/ \E h \in {"finish", "close", "resError"} : CleanupResume(h)
  \/ ProbeResumeMulti
  \/ SkipResume
  \/ SweepResumeMain
  \/ ArchiveData
  \/ PassthroughEnd
  \/ ArchiveEnd
  \/ \E h \in {"close", "archiveError", "archiveEnd"} : SweepResume(h)
  \/ FinalizeResolve
  \/ FinalizeReject

\* the request has come to rest: nothing is left to run unless something
\* new goes wrong
Quiescent == ~ENABLED Progress

\* C1: in the single-item pipeline the request never comes to rest with the
\* staged input file still on disk, whatever its outcome was (validation or
\* probe failure, codec error, normal finish, client disconnect).
C1_SingleNeverRestsWithStagedFile ==
  (IsSingle /\ pc # "start" /\ Quiescent) => staged = {}

\* C1 (what does hold): a single-item request that comes to rest with its
\* staged file left behind is one whose response emitted 'close' before
\* the listeners were registered, so that no listener ever ran.
C1_LeakOnlyWhenCloseWasMissed ==
  (IsSingle /\ pc # "start" /\ Quiescent /\ staged # {})
    => /\ res.closed /\ listeners
       /\ \A h \in {"finish", "close", "resError", "codecError"} :
            hpc[h] = "idle"

\* C2: in the multi-item pipeline a request whose client has disconnected
\* never comes to rest with a staged file still on disk, wherever in the
\* download the disconnect happened.
C2_DisconnectLeavesNoStagedFile ==
  (~IsSingle /\ op # "bulk" /\ archive # "none" /\ res.closed /\ Quiescent)
    => staged = {}

RejectionCodes ==
  { "FILES_NOT_FOUND", "FORMAT_REQUIRED", "INVALID_FORMAT",
    "PERCENT_REQUIRED", "INVALID_PERCENT", "PERCENT_OUT_OF_RANGE",
    "DIMENSION_MISMATCH", "NO_FILES_PROCESSED", "INVALID_FILE_TYPE",
    "INVALID_IMAGE", "INPUT_DIMENSION_TOO_LARGE", "DIMENSION_REQUIRED",
    "INVALID_WIDTH", "INVALID_HEIGHT", "DIMENSION_TOO_LARGE",
    "UNSUPPORTED_FORMAT" }

\* the controller's catch block has answered a rejected request
RejectedWithErrorResponse ==
  /\ op # "bulk" /\ pc = "done" /\ err # NoError
  /\ err.isAppError /\ err.type \in RejectionCodes

\* C4: when the controller's catch block has answered a rejected request,
\* none of the request's staged files is on disk any more.
C4_RejectedRequestLeavesNoStagedFile ==
  RejectedWithErrorResponse => staged = {}

\* C4 witness: a request of several files rejected for DIMENSION_MISMATCH
\* has been answered with status 400
C4_Witness ==
  /\ RejectedWithErrorResponse /\ err.type = "DIMENSION_MISMATCH"
  /\ N >= 2 /\ res.status = 400 /\ res.body = "json" /\ staged = {}

\* C5: once the headers of the response are sent, no step changes the
\* status code or writes a JSON body; a step may only end the stream.
C5_HeaderCommitExclusive ==
  [][res.headersSent =>
       /\ res'.status = res.status
       /\ res'.json = res.json
       /\ res'.body = res.body
       /\ res'.headers = res.headers]_vars

\* C5 witness: a catch block ran after the first bytes of a zip were sent
\* and only ended the stream
C5_Witness ==
  /\ pc = "done" /\ err # NoError
  /\ res.body = "stream" /\ res.status = 200 /\ res.ended

\* file k passes the per-file validation of the multi pipeline: its type,
\* its target dimensions (resize), its metadata, and a transform exists
PassesValidation(k) ==
  /\ SyncValidate(k, param).ok
  /\ validateImageMetadata(files[k]).ok
  /\ createPipeline(validateImageMetadata(files[k]).val).ok

\* C6: in handleMultipleFiles (convert, resize, compress), for a batch that
\* reached finalize() undisturbed (no disconnect, no archive error), the
\* archive holds exactly the files that passed validation, in upload order,
\* and the response is the zip stream with status 200, not an error; and an
\* undisturbed batch ends in NO_FILES_PROCESSED only if no file passed.
C6_PartialSuccessArchive ==
  /\ (/\ ~IsSingle /\ op # "bulk" /\ archiveFinalized
      /\ archive \in {"open", "ended"} /\ ~res.closed)
       => /\ entries = SelectSeq([k \in 1..N |-> k], PassesValidation)
          /\ entries # <<>>
          /\ processedCount = Len(entries)
          /\ Len(errors) = N - Len(entries)
          /\ res.body # "json" /\ res.status = 200
          /\ res.headers.ContentType = ZipMime
  /\ (~IsSingle /\ op # "bulk" /\ err = NoFilesProcessed /\ ~res.closed)
       => \A k \in All : ~PassesValidation(k)

\* C6 witness: three files, the second of an invalid type; the archive got
\* files 1 and 3, wrote them and ended the response
C6_Witness ==
  /\ op = "convert" /\ files = <<GoodPng, BadType, GoodPng>>
  /\ entries = <<1, 3>> /\ consumed = 2 /\ archive = "ended"
  /\ res.body = "stream" /\ res.ended /\ res.status = 200
  /\ Len(errors) = 1 /\ staged = {}

\* C7: in the multi-item pipeline, when the dispatch loop ends with
\* processedCount 0, the archive is destroyed and finalize() is never
\* called, the request fails with NO_FILES_PROCESSED and status 400, no
\* byte of a zip is sent, and the answer, once written, is a JSON body with
\* status 400.
C7_AllFailureRejection ==
  (~IsSingle /\ archive # "none" /\ idx > N /\ processedCount = 0)
    => /\ archive = "destroyed"
       /\ finalizeCalls = 0 /\ ~archiveFinalized
       /\ entries = <<>>
       /\ err # NoError /\ err.isAppError
       /\ err.type = "NO_FILES_PROCESSED" /\ err.statusCode = 400
       /\ res.body # "stream"
       /\ pc = "done" => /\ res.status = 400 /\ res.body = "json"
                         /\ res.json.error = "No files could be processed"

\* C7 witness: a batch of three files, all of them skipped, was answered
C7_Witness ==
  /\ N = 3 /\ pc = "done" /\ idx = 4 /\ processedCount = 0
  /\ Len(errors) = 3 /\ archive = "destroyed"
  /\ res.status = 400 /\ res.body = "json" /\ staged = {}

\* file k is one the bulk controller can convert
BulkValid(k) ==
  /\ validateInputFile(files[k]).ok
  /\ validateImageMetadataBulk(files[k]).ok

\* C8: in bulkConvertController a file that fails validation does not
\* abort the batch: when an undisturbed request with a valid target format
\* is over, every valid file of the batch was appended to the archive.
C8_BulkInvalidFileDoesNotAbort ==
  (/\ op = "bulk" /\ pc = "done" /\ ~res.closed
   /\ archive \in {"none", "open", "ended"}
   /\ validateFormat(body.format).ok)
    => \A k \in All :
         BulkValid(k) => \E i \in 1..Len(entries) : entries[i] = k

\* C9: in the multi-item pipeline, when the response has emitted 'close'
\* while the dispatch loop or finalize() had not completed, the archive is
\* destroyed and no path of the pending-cleanup set is still on disk.
C9_CloseBeforeFinalizeCompletes ==
  (/\ ~IsSingle /\ archive # "none" /\ res.closed
   /\ pc \in {"probe", "skip", "finalize"})
    => /\ archive = "destroyed"
       /\ filesToCleanup \cap staged = {}

\* C10: in the multi-item pipeline, after an archive 'error', once the
\* request has come to rest with the client still connected, no path of the
\* pending-cleanup set is on disk, the response is ended, and if no byte of
\* the body was sent the answer is the ZIP creation failure with status 500.
C10_ArchiveErrorHandled ==
  (/\ ~IsSingle /\ op # "bulk" /\ archive = "errored" /\ Quiescent
   /\ ~res.closed)
    => /\ filesToCleanup \cap staged = {}
       /\ res.ended
       /\ res.body # "stream"
            => /\ res.body = "json" /\ res.status = 500
               /\ res.json.error = "ZIP creation failed"

\* the records of `errors` pushed for skipped files (the bulk controller
\* also pushes one for each codec error)
SkipRecords == SelectSeq(errors, LAMBDA r : r.error # "Conversion failed")

\* C11: archive.finalize() is called at most once per request, and when it
\* has been called the dispatch loop is past the last file, every file was
\* either appended or skipped, and at least one file was appended.
C11_FinalizeOnceAfterDispatch ==
  /\ finalizeCalls <= 1
  /\ (archiveFinalized <=> finalizeCalls = 1)
  /\ finalizeCalls = 1
       => /\ ~IsSingle /\ idx = N + 1
          /\ pc \in {"finalize", "sweep", "ctlCatch", "done"}
          /\ processedCount >= 1
          /\ Len(entries) = processedCount
          /\ Len(entries) + Len(SkipRecords) = N

\* C11 witness: a bulk request of three files, one skipped, two appended,
\* whose single finalize() has resolved
C11_Witness ==
  /\ op = "bulk" /\ N = 3 /\ finalizeCalls = 1 /\ pc = "done"
  /\ Len(entries) = 2 /\ Len(SkipRecords) = 1 /\ err = NoError

\* C12: in handleSingleFile of the convert and compress controllers the
\* cleanup routine issues the deletion of the staged file at most once,
\* however the 'finish', 'close' and 'error' events of the response and the
\* 'error' event of the pipeline interleave.
C12_CleanupIssuesOneDeletion ==
  (IsSingle /\ op \in {"convert", "compress"}) => cleanupCalls <= 1

\* C13: in handleSingleFile of the resize controller and in
\* singleConvertController the cleanup routine issues the deletion of the
\* staged file at most once, however the events interleave, and cleanupDone
\* is set exactly when it has issued it.
C13_GuardedCleanupIssuesOneDeletion ==
  (IsSingle /\ op \in {"resize", "single"})
    => /\ cleanupCalls <= 1
       /\ cleanupDone <=> cleanupCalls = 1

\* C13 witness: the 'finish' and 'close' listeners of a resize response have
\* both run the cleanup routine to its end, and one deletion was issued
C13_Witness ==
  /\ IsSingle /\ op = "resize"
  /\ hpc["finish"] = "done" /\ hpc["close"] = "done"
  /\ cleanupCalls = 1 /\ cleanupDone /\ staged = {}

\* C14: safeDelete never throws, whatever it is given and whatever the state
\* of the path; it removes at most the path it was given, and removes it when
\* unlink is not refused; calling it again with the same argument throws
\* nothing, changes nothing and returns the same; and where it returns a
\* result (convert, compress), a path that was already gone gives true.
C14_SafeDeleteIdempotent ==
  call.made =>
    LET again == safeDelete(call.arg, staged, locked)
    IN /\ ~call.threw
       /\ staged \subseteq call.before
       /\ \A k \in call.before \ staged : PathOf(k) = call.arg
       /\ \A k \in staged : PathOf(k) = call.arg => k \in locked
       /\ ~again.threw /\ again.present = staged /\ again.ret = call.ret
       /\ (/\ op \in {"convert", "compress"}
           /\ \E k \in (1..MaxFiles) \ call.before : PathOf(k) = call.arg)
            => call.ret = Bool(TRUE)

\* C14 witness: safeDelete of convertController.js was called on a path
\* that was already gone while other files were on disk, and returned true
C14_Witness ==
  /\ call.made /\ op = "convert" /\ call.arg = PathOf(1)
  /\ 1 \notin call.before /\ staged # {}
  /\ call.ret = Bool(TRUE) /\ ~call.threw

\* C15: in the single-item pipeline, once the codec 'error' handler has run,
\* the cleanup routine has been run, and: if bytes of the body had been sent,
\* no JSON error was written and the response is ended; if no byte was sent,
\* the response is the JSON error with status 500 and the code of the
\* operation.
C15_CodecErrorAnswer ==
  (IsSingle /\ hpc["codecError"] = "done") =>
    /\ cleanupCalls >= 1
    /\ res.body = "stream" => (res.json = Undef /\ res.ended)
    /\ res.body # "stream" =>
         /\ res.body = "json" /\ res.status = 500
         /\ res.json = JsonBody(CodecErrorMessage, Lit(CodecErrorCode), Undef)

\* the part of C15 the code keeps: the handler runs the cleanup, writes no
\* JSON once bytes were sent and leaves the response ended
C15_CodecErrorEndsResponse ==
  (IsSingle /\ hpc["codecError"] = "done") =>
    /\ cleanupCalls >= 1
    /\ res.ended
    /\ res.body = "stream" => res.json = Undef

\* C16: in the multi-item pipeline, the answer to a request none of whose
\* files could be processed (status 400, "No files could be processed")
\* carries as its details the list of the skip records, one {file, error}
\* record per skipped file.
C16_NoFilesProcessedCarriesSkipReasons ==
  (/\ ~IsSingle /\ pc = "done" /\ processedCount = 0
   /\ res.body = "json" /\ res.status = 400
   /\ res.json.error = "No files could be processed")
    => /\ Len(errors) = N
       /\ res.json.details = [errors |-> errors]

\* the part of C16 the code keeps: the skip records are collected, one per
\* skipped file in upload order, when the request is answered
C16_SkipReasonsCollected ==
  (/\ ~IsSingle /\ pc = "done" /\ processedCount = 0
   /\ res.body = "json" /\ res.status = 400
   /\ res.json.error = "No files could be processed")
    => /\ Len(errors) = N
       /\ \A k \in All : errors[k].file = files[k].name
       /\ res.json.details = Undef

\* C17: every JSON error answer carries `error` and `code`, `code` being a
\* string that names the error kind, and is sent with the status of the
\* error kind: for a rejection (an AppError) the code is the kind the error
\* was raised with and the status is the error's.
C17_ErrorResponsesCarryCode ==
  res.body = "json" =>
    /\ res.json.code # Undef
    /\ err.isAppError =>
         /\ res.json.error = err.message
         /\ res.json.code = Lit(err.type)
         /\ res.status = err.statusCode

\* the part of C17 the code keeps: a rejection is answered with the message
\* and the status of the error; `code` is present only in the answers the
\* code writes as literals (INTERNAL_ERROR and the codec errors)
C17_ErrorResponsesCarryMessageAndStatus ==
  res.body = "json" =>
    IF err.isAppError
    THEN /\ res.json.error = err.message
         /\ res.status = err.statusCode
         /\ res.json.code = Undef
    ELSE /\ res.status = 500
         /\ res.json.code \in {Lit("INTERNAL_ERROR"), Lit(CodecErrorCode)}

\* entry k of the form field raw as the request gives it: a number, or
\* nothing where the entry is empty or missing
Requested(raw, k) ==
  IF raw.t = "array" /\ k \in 1..Len(raw.a) /\ raw.a[k] # Empty
  THEN ToNumber(raw.a[k])
  ELSE Null

\* the check of the target dimensions of file k against its own entries
OwnDimensions(k) ==
  validateDimensions(Requested(body.widths, k), Requested(body.heights, k))

\* the files appended to the archive
EntrySet == {entries[i] : i \in 1..Len(entries)}

\* the position of the skip record of file k among the skip records
SkipIndex(k) == Cardinality({j \in 1..k : j \notin EntrySet})

\* C18: in a resize batch every file the loop has dealt with was validated
\* and resized with the entries of widths and heights at its own index, an
\* empty or missing entry giving no constraint on that axis: an appended
\* file passed the check of its own dimensions and its transform received
\* exactly them; a file of an allowed type whose own dimensions are refused
\* is skipped with that refusal; files are appended in upload order, one
\* transform per appended file.
C18_PositionalPairing ==
  (op = "resize" /\ ~IsSingle) =>
    /\ \A a \in resizeArgs :
         /\ a.file \in EntrySet
         /\ a.width = Requested(body.widths, a.file)
         /\ a.height = Requested(body.heights, a.file)
    /\ Cardinality(resizeArgs) = Len(entries)
    /\ \A i, j \in 1..Len(entries) : i < j => entries[i] < entries[j]
    /\ \A k \in 1..N :
         k < idx =>
           /\ k \in EntrySet => OwnDimensions(k).ok
           /\ (validateFileType(files[k]).ok /\ ~OwnDimensions(k).ok)
                => /\ k \notin EntrySet
                   /\ errors[SkipIndex(k)] = SkipRecord(k, OwnDimensions(k).err)

\* C18 witness: files [A, B, C] with widths [100, , 300] and no heights:
\* A was resized to width 100 and C to width 300 with no height constraint,
\* B, with no constraint at all, was skipped
C18_Witness ==
  /\ op = "resize" /\ N = 3 /\ pc = "done"
  /\ body.widths = Arr(<<W100, Empty, W300>>) /\ body.heights = Undef
  /\ entries = <<1, 3>>
  /\ resizeArgs = {[file |-> 1, width |-> JsInt(100), height |-> Null],
                   [file |-> 3, width |-> JsInt(300), height |-> Null]}
  /\ Len(errors) = 1 /\ errors[1].error = "Width or height must be provided"

\* the form field raw is a non-empty array whose length is not the number
\* of uploaded files
LengthMismatch(raw) ==
  raw.t = "array" /\ Len(raw.a) > 0 /\ Len(raw.a) # N

\* the request was refused with DIMENSION_MISMATCH before any file was
\* validated, probed or transformed
RefusedAsMismatch ==
  /\ err.isAppError /\ err.type = "DIMENSION_MISMATCH" /\ err.statusCode = 400
  /\ idx = 0 /\ errors = <<>> /\ entries = <<>> /\ resizeArgs = {}
  /\ \A k \in All : stream[k] = "none"
  /\ pc = "done" => (res.body = "json" /\ res.status = 400)

\* C19: a resize request with at least one file whose widths or heights
\* array is non-empty and differs in length from the file list is refused
\* with DIMENSION_MISMATCH (400) before any file is validated, probed or
\* transformed, whatever the number of files.
C19_LengthMismatchRefused ==
  (/\ op = "resize" /\ N >= 1 /\ pc # "start"
   /\ LengthMismatch(body.widths) \/ LengthMismatch(body.heights))
    => RefusedAsMismatch

\* the part of C19 the code keeps: the refusal for a batch of two files or
\* more
C19_BatchLengthMismatchRefused ==
  (/\ op = "resize" /\ N > 1 /\ pc # "start"
   /\ LengthMismatch(body.widths) \/ LengthMismatch(body.heights))
    => RefusedAsMismatch

\* a target dimension the request may ask for, the ceiling left aside
ValidTarget(v) == v = Null \/ (IsInteger(v) /\ v.tenths > 0)

\* file k is asked to be resized above MAX_OUTPUT_DIMENSION on an axis, its
\* entries being otherwise valid
TargetTooLarge(k) ==
  LET w == Requested(body.widths, k)
      h == Requested(body.heights, k)
  IN /\ ValidTarget(w) /\ ValidTarget(h)
     /\ \/ (w # Null /\ w.tenths > 10 * MAX_OUTPUT_DIMENSION)
        \/ (h # Null /\ h.tenths > 10 * MAX_OUTPUT_DIMENSION)

\* the image in file k is larger than MAX_DIMENSION on an axis
InputTooLarge(k) ==
  /\ files[k].image.readable
  /\ files[k].image.width > 0 /\ files[k].image.height > 0
  /\ \/ files[k].image.width > MAX_DIMENSION
     \/ files[k].image.height > MAX_DIMENSION

\* the step invokes the metadata probe for file k
ProbeInvoked(k) == pc' = "probe" /\ idx' = k /\ ~(pc = "probe" /\ idx = k)

\* the step is the return of a metadata probe that read file k
ProbeReturned(k) ==
  /\ pc = "probe" /\ idx = k /\ ~(pc' = "probe" /\ idx' = k)
  /\ k \in staged /\ hok["main"]

\* the step starts the transform of file k
TransformStarted(k) == stream[k] = "none" /\ stream'[k] # "none"

\* the step refuses file k with the error of message m and type t: the
\* single pipeline throws it, the batch records it and skips the file
RefusedWith(k, m, t) ==
  IF IsSingle
  THEN pc' = "hsCatch" /\ err'.isAppError /\ err'.message = m /\ err'.type = t
  ELSE /\ pc' = "skip" /\ idx' = k
       /\ errors' = Append(errors, [file |-> files[k].name, error |-> m])

\* C20: in the resize pipelines, a file of an allowed type asked to be
\* resized above 10000 on an axis is refused with DIMENSION_TOO_LARGE in the
\* step that reaches it, so the metadata probe is never invoked for it; an
\* image above 20000 on an axis is refused with INPUT_DIMENSION_TOO_LARGE in
\* the step its probe returns, and no transform is ever started for either.
C20_CeilingsInOrder ==
  [][op = "resize" =>
       \A k \in All :
         /\ ProbeInvoked(k) => ~TargetTooLarge(k)
         /\ TransformStarted(k) => (~TargetTooLarge(k) /\ ~InputTooLarge(k))
         /\ (/\ idx' = k /\ idx # k /\ validateFileType(files[k]).ok
             /\ TargetTooLarge(k))
              => RefusedWith(k, "Maximum allowed dimension is 10000px",
                             "DIMENSION_TOO_LARGE")
         /\ (ProbeReturned(k) /\ InputTooLarge(k))
              => /\ RefusedWith(k,
                                "Input image dimensions exceed maximum (20000px)",
                                "INPUT_DIMENSION_TOO_LARGE")
                 /\ resizeArgs' = resizeArgs /\ stream' = stream]_vars

\* C20 witness: of three files, the first asked for width 10001 and the
\* second holding an image 20001 wide, both were skipped with their own
\* refusal and never transformed; the third was resized
C20_Witness ==
  /\ op = "resize" /\ N = 3 /\ pc = "done"
  /\ TargetTooLarge(1) /\ InputTooLarge(2)
  /\ Len(errors) = 2
  /\ errors[1].error = "Maximum allowed dimension is 10000px"
  /\ errors[2].error = "Input image dimensions exceed maximum (20000px)"
  /\ stream[1] = "none" /\ stream[2] = "none"
  /\ entries = <<3>>
  /\ resizeArgs = {[file |-> 3, width |-> JsInt(200), height |-> Null]}

\* the check of the operation parameters of a single-file request
ParameterCheck ==
  CASE op = "convert" -> validateFormat(body.format)
    [] op = "compress" -> validateCompressionPercent(body.quality)
    [] OTHER -> OwnDimensions(1)

\* the checks of the single-item pipeline in the order file type, operation
\* parameters, metadata probe
ChecksTypeFirst ==
  <<validateFileType(files[1]), ParameterCheck, validateImageMetadata(files[1])>>

\* the same checks in the order operation parameters, file type, probe
ChecksParametersFirst ==
  <<ParameterCheck, validateFileType(files[1]), validateImageMetadata(files[1])>>

\* the error of the first failing check of a sequence that has one
FirstFailure(checks) ==
  checks[CHOOSE i \in DOMAIN checks :
           ~checks[i].ok /\ \A j \in 1..(i - 1) : checks[j].ok].err

SomeFails(checks) == \E i \in DOMAIN checks : ~checks[i].ok

\* a single-file request of the three controllers whose form fields have
\* the shape the controller reads
SingleChecked ==
  /\ IsSingle /\ op \in {"convert", "resize", "compress"}
  /\ op = "resize" => resizeChecks.ok
  /\ pc \notin {"start", "probe"}

\* C21: a single-file request that fails a check is rejected with the error
\* of the first failing check in the order file type, operation parameters,
\* metadata probe.
C21_FileTypeCheckedFirst ==
  (SingleChecked /\ SomeFails(ChecksTypeFirst))
    => err = FirstFailure(ChecksTypeFirst)

\* the order the code keeps in convert and compress: the operation
\* parameters are checked by the controller, before the file type; resize
\* checks the file type first
C21_OrderOfTheCode ==
  (SingleChecked /\ SomeFails(ChecksTypeFirst))
    => err = FirstFailure(IF op = "resize" THEN ChecksTypeFirst
                          ELSE ChecksParametersFirst)

\* the request-level operation parameters of the request are invalid
ParametersInvalid ==
  CASE op = "convert" -> ~validateFormat(body.format).ok
    [] op = "compress" -> ~validateCompressionPercent(body.quality).ok
    [] op = "resize" ->
         LengthMismatch(body.widths) \/ LengthMismatch(body.heights)
    [] OTHER -> FALSE

\* no file of the request was reached: none validated, probed, transformed
NoCodecWork ==
  /\ idx = 0 /\ pc # "probe"
  /\ \A k \in All : stream[k] = "none"
  /\ entries = <<>> /\ resizeArgs = {} /\ errors = <<>>

\* C22: a request with files whose request-level parameters are invalid is
\* rejected (status 400) without a metadata probe or a transform being
\* invoked for any of its files.
C22_InvalidParametersShortCircuit ==
  (N >= 1 /\ ParametersInvalid)
    => /\ NoCodecWork
       /\ pc # "start" => (err.isAppError /\ err.statusCode = 400)

\* the part of C22 the code keeps: every case but the resize request with
\* one file, whose arrays are not compared with the file count
C22_ShortCircuitButSingleResize ==
  (N >= 1 /\ ParametersInvalid /\ ~(op = "resize" /\ N = 1))
    => /\ NoCodecWork
       /\ pc # "start" => (err.isAppError /\ err.statusCode = 400)

\* C23: in convert, resize and compress, a request with no file fails with
\* FILES_NOT_FOUND and status 400 and reaches no pipeline; a request with
\* one file never creates an archive and, when it streams, streams one
\* image as an attachment named after the file; a request with two files or
\* more never enters the single-item pipeline and, when it streams, streams
\* an application/zip attachment named converted-images.zip,
\* resized-images.zip or compressed-images.zip after the operation.
C23_RoutingByFileCount ==
  op \in {"convert", "resize", "compress"} =>
    /\ (N = 0 /\ pc # "start")
         => /\ err.isAppError /\ err.type = "FILES_NOT_FOUND"
            /\ err.statusCode = 400
            /\ archive = "none" /\ ~listeners /\ idx = 0
            /\ pc = "done" => (res.body = "json" /\ res.status = 400)
    /\ N = 1
         => /\ archive = "none" /\ entries = <<>>
            /\ res.body = "stream"
                 => /\ listeners
                    /\ res.headers.ContentType.type = "image"
                    /\ res.headers.ContentDisposition.kind = "attachment"
                    /\ res.headers.ContentDisposition.base = files[1].name
    /\ N >= 2
         => /\ ~listeners /\ cleanupCalls = 0
            /\ res.body = "stream"
                 => /\ archive # "none"
                    /\ res.headers.ContentType
                         = Mime("application", <<"z","i","p">>)
                    /\ res.headers.ContentDisposition
                         = Attachment(CASE op = "convert" -> "converted-images"
                                        [] op = "resize" -> "resized-images"
                                        [] op = "compress" -> "compressed-images",
                                      "", <<"z","i","p">>)

\* C23 witness: a compress request with two files was answered with the
\* complete compressed-images.zip
C23_Witness ==
  /\ op = "compress" /\ N = 2 /\ pc = "done"
  /\ res.body = "stream" /\ res.ended /\ res.status = 200
  /\ res.headers.ContentDisposition.base = "compressed-images"
  /\ Len(entries) = 2

----------------------------------------------------------------------------
(* C24: the headers of a converted single file *)

\* the routes that convert one uploaded file to a requested format
ConvertsOne ==
  op \in {"convert", "single", "serverConvert", "mergedConvert"} /\ N = 1

\* the response carries the bytes of an image with status 200
ImageSent == res.status = 200 /\ res.body \in {"stream", "buffer"}

\* image/jpeg for jpg and jpeg, image/<f> for the other formats
ExpectedMime(f) ==
  IF f \in {<<"j","p","g">>, <<"j","p","e","g">>}
  THEN Mime("image", <<"j","p","e","g">>)
  ELSE Mime("image", f)

\* C24: a single-file convert request that is answered with an image asked
\* for a supported target format f (up to case and surrounding blanks), and
\* its response has Content-Type image/jpeg when f is jpg or jpeg and
\* image/<f> otherwise, and Content-Disposition attachment with the file
\* name <original base name>.<f>.
C24_ConvertHeadersFollowFormat ==
  (ConvertsOne /\ ImageSent) =>
    /\ body.format.t = "string"
    /\ \E f \in SUPPORTED_FORMATS :
         /\ f = Trim(ToLowerCase(body.format.s))
         /\ res.headers.ContentType = ExpectedMime(f)
         /\ res.headers.ContentDisposition = Attachment(files[1].name, "", f)

\* each supported target format is served by the controller and by POST
\* /convert of server.js, jpg among them
C24_Witness ==
  /\ ConvertsOne /\ ImageSent /\ op = "serverConvert"
  /\ body.format = Str(<<"j","p","g">>)
  /\ res.headers.ContentType = Mime("image", <<"j","p","e","g">>)

\* a PNG converted to webp leaves as image/webp under the name <base>.webp
C24_PngToWebp ==
  /\ op = "convert" /\ N = 1 /\ ImageSent
  /\ files[1] = GoodPng /\ body.format = Str(<<"w","e","b","p">>)
  /\ res.headers.ContentType = Mime("image", <<"w","e","b","p">>)
  /\ res.headers.ContentDisposition
       = Attachment(GoodPng.name, "", <<"w","e","b","p">>)

----------------------------------------------------------------------------
(* C25: success responses are not to be stored *)

\* the Cache-Control values of the sources that carry the no-store directive
ForbidsStoring(cacheControl) ==
  cacheControl \in {"no-store, no-cache, must-revalidate",
                    "no-cache, no-store, must-revalidate"}

\* C25: every response of every endpoint that carries an image or an
\* archive with status 200 was sent with a Cache-Control header that
\* forbids storing it.
C25_SuccessResponsesNotStored ==
  ImageSent => ForbidsStoring(res.headers.CacheControl)

\* the part of C25 the code keeps: the five controllers of
\* convertController.js, resizeController.js and the compress controller,
\* and POST /convert of server.js
C25_NotStoredByTheMainRoutes ==
  (ImageSent /\ op \in Ops \cup {"serverConvert"})
    => ForbidsStoring(res.headers.CacheControl)

----------------------------------------------------------------------------
(* C26: validateFormat *)

\* the validator named `name` was called and has returned or thrown
Called(name) == op = name /\ call.made

\* the call threw an AppError of this type with status 400
ThrewType(type) ==
  /\ call.threw /\ err.isAppError /\ err.type = type /\ err.statusCode = 400

\* C26: validateFormat throws FORMAT_REQUIRED when the format is absent
\* (undefined, null or empty), throws INVALID_FORMAT when its lower-cased,
\* trimmed value is not one of jpg, jpeg, png, webp, tiff, avif, and
\* otherwise returns that normalized value; applied to a value it returned,
\* it returns the same value.
C26_ValidateFormat ==
  Called("validateFormat") =>
    /\ pc = "done" =>
         IF call.arg \in {Undef, Null, Str(<<>>)}
         THEN ThrewType("FORMAT_REQUIRED")
         ELSE LET normalized == Trim(ToLowerCase(call.arg.s))
              IN IF normalized \in { <<"j","p","g">>, <<"j","p","e","g">>,
                                     <<"p","n","g">>, <<"w","e","b","p">>,
                                     <<"t","i","f","f">>, <<"a","v","i","f">> }
                 THEN ~call.threw /\ call.ret = Str(normalized)
                 ELSE ThrewType("INVALID_FORMAT")
    /\ pc = "again" => (~call.threw /\ call.ret = call.arg)

\* ' WebP ' was accepted as webp, and webp was accepted again as itself
C26_Witness ==
  /\ Called("validateFormat") /\ pc = "again"
  /\ body.format = Str(<<" ","W","e","b","P"," ">>)
  /\ call.arg = Str(<<"w","e","b","p">>) /\ call.ret = call.arg

----------------------------------------------------------------------------
(* C27: validateDimensions on the fields of a resize request *)

\* the first item of a widths or heights field, or the empty string
RawItem(field) == IF field = Undef THEN Str(<<>>) ELSE field.a[1]

\* the request supplied a value for the dimension
Supplied(field) == RawItem(field) # Str(<<>>)

\* the value supplied is the decimal notation of a positive integer
PositiveInteger(field) ==
  LET n == ToNumber(RawItem(field))
  IN IsInteger(n) /\ n.tenths > 0

Exceeds(field) ==
  PositiveInteger(field)
    /\ ToNumber(RawItem(field)).tenths > 10 * MAX_OUTPUT_DIMENSION

\* zero, or not a number: the values `widths[0] || null` turns into null
ZeroOrNaN(field) ==
  Supplied(field) /\ ToNumber(RawItem(field)) \in {Num(0), NaN}

\* C27: for the width and height of a resize request, validateDimensions
\* throws DIMENSION_REQUIRED if neither is supplied, INVALID_WIDTH
\* (INVALID_HEIGHT) if the width (height) is supplied but is not a positive
\* integer, zero, negative, fractional and non-numeric values included,
\* DIMENSION_TOO_LARGE if either exceeds 10000, and accepts otherwise.
C27_ValidateDimensions ==
  Called("validateDimensions") =>
    IF ~Supplied(body.widths) /\ ~Supplied(body.heights)
    THEN ThrewType("DIMENSION_REQUIRED")
    ELSE IF Supplied(body.widths) /\ ~PositiveInteger(body.widths)
    THEN ThrewType("INVALID_WIDTH")
    ELSE IF Supplied(body.heights) /\ ~PositiveInteger(body.heights)
    THEN ThrewType("INVALID_HEIGHT")
    ELSE IF Exceeds(body.widths) \/ Exceeds(body.heights)
    THEN ThrewType("DIMENSION_TOO_LARGE")
    ELSE ~call.threw

\* what the code does: a width or height of zero, or one that is not a
\* number, counts as not supplied; negative and fractional values are
\* refused
C27_ZeroCountsAsAbsent ==
  Called("validateDimensions") =>
    LET given(field) == Supplied(field) /\ ~ZeroOrNaN(field)
    IN IF ~given(body.widths) /\ ~given(body.heights)
       THEN ThrewType("DIMENSION_REQUIRED")
       ELSE IF given(body.widths) /\ ~PositiveInteger(body.widths)
       THEN ThrewType("INVALID_WIDTH")
       ELSE IF given(body.heights) /\ ~PositiveInteger(body.heights)
       THEN ThrewType("INVALID_HEIGHT")
       ELSE IF Exceeds(body.widths) \/ Exceeds(body.heights)
       THEN ThrewType("DIMENSION_TOO_LARGE")
       ELSE ~call.threw

----------------------------------------------------------------------------
(* C28: validateCompressionPercent *)

\* v is an integer between 1 and 100
IntegerPercent(v) == IsInteger(v) /\ v.tenths >= 10 /\ v.tenths <= 1000

\* v is an integer nearest to the number x
NearestTo(v, x) ==
  IsInteger(v) /\ v.tenths - x.tenths <= 5 /\ x.tenths - v.tenths <= 5

\* C28: validateCompressionPercent throws PERCENT_REQUIRED when the value
\* is undefined or null, INVALID_PERCENT when it is not a number,
\* PERCENT_OUT_OF_RANGE when it is below 1 or above 100, and otherwise
\* returns the value rounded to the nearest integer, an integer between 1
\* and 100; the compress controller hands exactly that value, as the
\* quality, to the handler of every file it reaches.
C28_ValidateCompressionPercent ==
  /\ Called("validateCompressionPercent") =>
       IF call.arg \in {Undef, Null} THEN ThrewType("PERCENT_REQUIRED")
       ELSE IF ~IsNumber(ToNumber(call.arg)) THEN ThrewType("INVALID_PERCENT")
       ELSE IF ToNumber(call.arg).tenths < 10
               \/ ToNumber(call.arg).tenths > 1000
       THEN ThrewType("PERCENT_OUT_OF_RANGE")
       ELSE /\ ~call.threw
            /\ IntegerPercent(call.ret)
            /\ NearestTo(call.ret, ToNumber(call.arg))
  /\ (op = "compress" /\ idx >= 1) =>
       /\ IntegerPercent(param)
       /\ NearestTo(param, ToNumber(body.quality))

\* 99.5 was rounded to 100
C28_Witness ==
  /\ Called("validateCompressionPercent")
  /\ call.arg = Str(<<"9","9",".","5">>) /\ call.ret = JsInt(100)

\* the compress controller reached the second file of a batch with the
\* validated quality
C28_QualityReachesEveryFile ==
  op = "compress" /\ N >= 2 /\ idx = N /\ IntegerPercent(param)

----------------------------------------------------------------------------
(* C29: validateFileType *)

\* the extension of the file name, in lower case, is an allowed one
ExtensionAllowed(file) == ToLowerCase(file.ext) \in ALLOWED_INPUT_FORMATS

\* the declared MIME type, in lower case, is an allowed one
MimeAllowed(file) == ToLowerCase(file.mimetype) \in ALLOWED_MIME_TYPES

\* C29: validateFileType throws INVALID_FILE_TYPE (status 400) exactly when
\* neither the extension of the file name nor the declared MIME type is in
\* the allowed set; it returns as soon as one of the two is allowed,
\* whatever the other is.
C29_ValidateFileType ==
  Called("validateFileType") =>
    IF ExtensionAllowed(call.arg) \/ MimeAllowed(call.arg)
    THEN ~call.threw
    ELSE ThrewType("INVALID_FILE_TYPE")

\* a .bmp file declared image/png passed
C29_Witness ==
  /\ Called("validateFileType") /\ ~call.threw
  /\ ~ExtensionAllowed(call.arg) /\ MimeAllowed(call.arg)

\* a file passed on its extension alone
C29_PassedOnExtension ==
  /\ Called("validateFileType") /\ ~call.threw
  /\ ExtensionAllowed(call.arg) /\ ~MimeAllowed(call.arg)

\* a file was refused
C29_Refused == Called("validateFileType") /\ ThrewType("INVALID_FILE_TYPE")

----------------------------------------------------------------------------
(* C30: validateImageMetadata *)

\* C30: validateImageMetadata throws INVALID_IMAGE when the codec cannot
\* read the file or reports no width or no height, throws
\* INPUT_DIMENSION_TOO_LARGE when the width or the height is greater than
\* 20000, and returns the metadata otherwise, a dimension of exactly 20000
\* included; whatever it throws is an AppError with status 400.
C30_ValidateImageMetadata ==
  Called("validateImageMetadata") =>
    LET image == call.arg.image
    IN /\ IF ~image.readable \/ image.width = 0 \/ image.height = 0
          THEN ThrewType("INVALID_IMAGE")
          ELSE IF image.width > 20000 \/ image.height > 20000
          THEN ThrewType("INPUT_DIMENSION_TOO_LARGE")
          ELSE ~call.threw /\ call.ret = image
       /\ call.threw => (err.isAppError /\ err.statusCode = 400)

\* an image of 20000 by 20000 pixels was accepted
C30_Witness ==
  /\ Called("validateImageMetadata") /\ ~call.threw
  /\ call.ret.width = 20000 /\ call.ret.height = 20000

\* a file the codec cannot read was refused with an AppError
C30_UnreadableRefused ==
  /\ Called("validateImageMetadata") /\ ~call.arg.image.readable
  /\ ThrewType("INVALID_IMAGE")

\* an image of 20001 pixels in one dimension was refused
C30_TooLargeRefused ==
  /\ Called("validateImageMetadata") /\ call.arg.image.height = 20001
  /\ ThrewType("INPUT_DIMENSION_TOO_LARGE")

----------------------------------------------------------------------------
(* C31: a codec error in a batch *)

\* the transform of an appended file has emitted 'error', and neither a
\* client disconnect nor an archive error came on top of it
CodecErrorAlone ==
  /\ ~IsSingle /\ archive \in {"open", "ended"} /\ ~res.closed
  /\ \E k \in All : stream[k] \in {"failed", "failedEnd"}

C31_SiblingsStillDispatched ==
  (CodecErrorAlone /\ Quiescent)
    => /\ idx = N + 1 /\ Len(entries) + Len(SkipRecords) = N
       /\ finalizeCalls = 1
       /\ (\A k \in All : stream[k] # "failed")
            => (archive = "ended" /\ res.ended /\ pc = "done")

----------------------------------------------------------------------------
(* C32: the stages of a single-item request *)

\* the event loop runs every callback and continuation that is ready: a
\* step of the program that stays possible is eventually taken. The
\* failure events and the client's disconnect are not owed
LiveSpec == Spec /\ WF_vars(Progress)

\* the response is over: ended by the server, or closed by the client
Terminal == res.ended \/ res.closed

\* the transform of the single file was created and piped to the response
Streaming == IsSingle /\ stream[1] # "none"

\* C32: every single-item request eventually reaches a terminal state, its
\* response ended or closed, also once streaming has started; a request
\* refused by a validation is answered with a JSON error without a
\* transform being started; and a transform is started only for a file
\* that passed every validation.
C32_SingleReachesTerminalState ==
  /\ IsSingle ~> Terminal
  /\ Streaming ~> Terminal
  /\ [](IsSingle =>
         /\ (pc = "done" /\ ~Streaming /\ err.isAppError)
              => (res.body = "json" /\ res.ended
                  /\ res.status = err.statusCode)
         /\ Streaming => PassesValidation(1))

\* a single-item response that had begun to stream was ended by the codec
\* error handler
C32_Witness ==
  /\ IsSingle /\ Streaming /\ res.body = "stream" /\ res.ended
  /\ hpc["codecError"] = "done" /\ stream[1] = "failed"

----------------------------------------------------------------------------
(* C33: the dispatch loop after a disconnect *)

\* the 'close' listener of the response has destroyed the archive
DestroyedByClose ==
  ~IsSingle /\ archive = "destroyed" /\ res.closed /\ hpc["close"] # "idle"

\* C33: in the multi-item pipeline, once the 'close' listener has destroyed
\* the archive, no step starts a transform, appends an entry to the archive
\* or calls finalize().
C33_NoDispatchAfterDisconnect ==
  [][DestroyedByClose =>
       /\ \A k \in All : stream[k] = "none" => stream'[k] = "none"
       /\ entries' = entries
       /\ processedCount' = processedCount
       /\ finalizeCalls' = finalizeCalls]_vars

\* the part of C33 the code keeps: a file whose probe was started after the
\* disconnect is not dispatched; only the file whose probe was in flight
\* when the client went away can still be appended, and finalize() can
\* then be called
C33_OnlyTheProbeInFlight ==
  [][DestroyedByClose =>
       /\ Len(entries') <= Len(entries) + 1
       /\ entries' # entries => (pc = "probe" /\ hok["main"])]_vars

----------------------------------------------------------------------------
(* C34: the headers of an error response *)

\* C34: a response whose body is a JSON error carries no attachment
\* Content-Disposition, also when the failure came after a pipeline had set
\* the headers of the download (NO_FILES_PROCESSED in the multi-item
\* pipeline, UNSUPPORTED_FORMAT or a codec error in the single-item one).
C34_ErrorResponseWithoutAttachment ==
  res.body = "json" => res.headers.ContentDisposition.kind # "attachment"

\* the part of C34 the code keeps: res.json() replaces the Content-Type, so
\* a JSON error never goes out as an image or a zip, and an error raised
\* before any pipeline set a header carries no attachment
C34_ErrorResponseIsJsonTyped ==
  res.body = "json" =>
    /\ res.headers.ContentType = JsonMime
    /\ (idx = 0 /\ archive = "none")
         => res.headers.ContentDisposition = NoDisposition

----------------------------------------------------------------------------
(* C35: the pending-cleanup set *)

\* C35: in the multi-item pipeline every staged file of the request that is
\* still on disk is in filesToCleanup: a path leaves the set (per-file
\* hook, skip path, clear() of the sweep) only with the deletion of its
\* file issued.
C35_StagedFilesArePending ==
  (~IsSingle /\ pc # "start") => staged \subseteq filesToCleanup

\* a batch at rest at finalize(): the first entry was read and its file
\* deleted by its hook, the second failed and is still staged and pending
C35_Witness ==
  /\ ~IsSingle /\ pc = "finalize" /\ Quiescent
  /\ staged # {} /\ staged = filesToCleanup
  /\ \E k \in All : stream[k] = "done" /\ k \notin staged

----------------------------------------------------------------------------
(* C36: cleanupDone under unlink failures *)

\* the unlink calls the file system refuses during one request, at most
MaxFaults == 1

\* a request with one file whose deletion the file system may refuse (the
\* file is held open by another process), or any request without faults
FaultInit ==
  \E r \in Requests :
    /\ op = r.op /\ files = r.files /\ body = r.body
    /\ staged = 1..Len(r.files)
    /\ faults \in (IF Len(r.files) = 1 THEN 0..MaxFaults ELSE {0})
    /\ locked = {} /\ call = NoCall
    /\ stream = [k \in 1..Len(r.files) |-> "none"]
    /\ Idle

FaultSpec == FaultInit /\ [][Next]_vars

\* a listener's deletion attempt was refused by the file system
RefusedAttempt ==
  \E h \in {"main", "finish", "close", "resError", "codecError"} :
    hpc[h] \in {"await", "done"} /\ ~hok[h]

\* C36: in handleSingleFile of the convert and compress controllers,
\* cleanupDone is true only if the staged file is gone; after a deletion
\* attempt that the file system refused the flag is still false, so that
\* the cleanup of a later terminal event issues the deletion again; the
\* flag is set only by an attempt that succeeded.
C36_FlagOnlyWhenFileIsGone ==
  (IsSingle /\ op \in {"convert", "compress"}) =>
    /\ cleanupDone => staged = {}
    /\ (RefusedAttempt /\ cleanupCalls = 1) => ~cleanupDone
    /\ cleanupDone =>
         \E h \in {"main", "finish", "close", "resError", "codecError"} :
           hpc[h] = "done" /\ hok[h]

\* the first deletion was refused, a later event retried it, the file is
\* gone and the flag is set
C36_Witness ==
  /\ IsSingle /\ op = "convert" /\ RefusedAttempt
  /\ cleanupCalls = 2 /\ cleanupDone /\ staged = {}

----------------------------------------------------------------------------
(* C37: outcome accounting *)

\* the dispatch loop of a multi-item pipeline has gone over every file
Dispatched == ~IsSingle /\ archive # "none" /\ idx = N + 1

\* C37: in every multi-item pipeline (handleMultipleFiles and
\* bulkConvertController), once the dispatch loop has gone over the files,
\* each uploaded file is counted exactly once, in processedCount or as one
\* record of errors: processedCount + errors.length is the number of files.
C37_EachFileCountedOnce ==
  Dispatched => processedCount + Len(errors) = N

\* the part of C37 the code keeps: the count holds in handleMultipleFiles,
\* and in bulkConvertController for the records of skipped files
C37_CountedOnceButCodecErrors ==
  Dispatched =>
    /\ processedCount + Len(SkipRecords) = N
    /\ op # "bulk" => processedCount + Len(errors) = N

----------------------------------------------------------------------------
(* C38: exceptions that are not AppErrors *)

\* the controller's catch block has answered an exception that is not an
\* AppError
UnexpectedAnswered == pc = "done" /\ err # NoError /\ ~err.isAppError

\* C38: when a controller has answered an exception that is not an AppError
\* (widths submitted as a single value, an error of the archiver), every
\* staged file of the request is deleted and, unless the headers were
\* already sent with a stream, the response is the JSON body { error:
\* "Internal server error", code: "INTERNAL_ERROR" } with status 500.
C38_UnexpectedErrorIs500 ==
  UnexpectedAnswered =>
    /\ staged = {}
    /\ res.ended
    /\ res.body # "stream" =>
         /\ res.body = "json" /\ res.status = 500
         /\ res.json = JsonBody("Internal server error",
                                Lit("INTERNAL_ERROR"), Undef)

\* a resize request whose widths field is a single value, not an array, was
\* answered with status 500 and its file deleted
C38_Witness ==
  /\ UnexpectedAnswered /\ op = "resize" /\ body.widths.t = "string"
  /\ N >= 1 /\ staged = {} /\ res.status = 500 /\ res.body = "json"

----------------------------------------------------------------------------
(* C39: POST /convert/bulk when no file converts *)

\* POST /convert/bulk has answered a batch with a valid target format
BulkAnswered ==
  /\ op = "serverBulk" /\ pc = "done" /\ N >= 1
  /\ ~FormatRefused(LowerTrim(body.format))

\* C39: POST /convert/bulk of server.js answers a batch of which every file
\* failed (unreadable, or above 20000 pixels) with a 400 error and no zip
\* stream; the zip it sends holds at least one converted file.
C39_BulkAllFailedIs400 ==
  BulkAnswered =>
    /\ entries = <<>> => (res.status = 400 /\ res.body = "json")
    /\ res.body = "stream" => entries # <<>>

\* the part of C39 the code keeps: the files that fail are left out of the
\* zip and every staged file is deleted, whatever was converted
C39_BulkSkipsFailedFiles ==
  BulkAnswered =>
    /\ \A i \in 1..Len(entries) : Convertible(entries[i])
    /\ staged = {}
    /\ res.body = "stream" /\ res.status = 200 /\ res.ended

----------------------------------------------------------------------------
(* C40: the staged files of the merged controllers *)

\* a merged controller has run a request to its end
MergedOver == op \in {"mergedResize", "mergedConvert"} /\ pc = "done"

\* C40: when a merged controller (resizeController of resizeControllers.js,
\* convertController of unnamed/part_000) is over with a request, on
\* whatever path, none of the request's staged files is left on disk.
C40_MergedLeaveNoStagedFile ==
  MergedOver => staged = {}

\* the part of C40 the code keeps: the paths that do delete. An input above
\* the ceiling, an unsupported format, a codec error on a single file, a
\* converted single file of the convert controller, and an archive all of
\* whose transforms ended leave nothing behind; in an archive, a file is
\* left only from the first transform that never ended onwards
C40_PathsThatDelete ==
  MergedOver =>
    /\ (N >= 1 /\ err.isAppError
        /\ err.type \in {"INPUT_DIMENSION_TOO_LARGE", "LARGE_IMAGE_SIZE_ERROR",
                          "INVALID_FORMAT"})
         => staged = {}
    /\ (N = 1 /\ op = "mergedConvert" /\ res.headers.ContentType # NoMime)
         => staged = {}
    /\ (N = 1 /\ res.body = "json") => staged = {}
    /\ (N >= 2 /\ res.ended) => staged = {}
    /\ N >= 2 => staged \subseteq {entries[i] : i \in 1..Len(entries)}

====
